---- MODULE Spec2Model ----
(***************************************************************************)
(* Voice interaction core of IntelliVox: the Session Coordinator           *)
(* (useVoiceSession), the Synthesis Engine (useStableSpeechSynthesis), the  *)
(* Recognition Engine (useStableSpeechRecognition, v2.0) and the Voice     *)
(* page that wires them (pages/Home.tsx, component Voice).                  *)
(*                                                                         *)
(* React state (useState) is modelled by the value the next render will    *)
(* show; refs that are synchronised by effects (stateRef, isGatedRef) lag  *)
(* behind it until the effect runs, which is a step of its own.            *)
(***************************************************************************)
EXTENDS Integers, Sequences, FiniteSets, TLC

(* ----------------------------- bounds ---------------------------------- *)
\* release timers (window.setTimeout of releaseMicrophone) pending at once
MaxTimers == 3
\* speak() calls in one behaviour
MaxRuns == 2
\* chunks of the longest text handed to speak()
MaxChunks == 2
\* events from outside in one behaviour of the Voice page
MaxEvents == 3
\* longest finalTranscriptRef an onresult event may build
MaxBufferLen == 5
\* longest finalTranscriptRef the desktop merge may build from phrases
MaxMergeLen == 25
MaxCalls == 3
\* most voices a platform offers
MaxVoices == 2
\* most characters one read of the response body carries
MaxRead == 110
\* most stored messages of a chat
MaxHistory == 3
MaxDeltas == 2

(* ------------------------------- state --------------------------------- *)
\* Session Coordinator (useVoiceSession)
VARIABLES
  sessionState,        \* useState<VoiceSessionState>('idle')
  isMicGated,          \* useState(false)
  isOutputActive,      \* useState(false)
  isMicGatedRendered,     \* isMicGated as of the last render, which the
                          \* canStartListening of that render closed over
  isOutputActiveRendered, \* isOutputActive as of the last render, likewise
  stateRef,            \* useRef('idle'), copied from sessionState by an effect
  micGateTimeoutRef,   \* useRef<number|null>: handle of the last release timer, 0 = null
  pendingStateRef,     \* useRef<VoiceSessionState|null>
  transitionLockRef,   \* useRef(false)
  releaseTimers,       \* pending window.setTimeout callbacks of releaseMicrophone,
                       \* oldest first (all have the same delay, so they fire in order)
  autoResumeListening, \* config.autoResumeListening
  leaveTimer,          \* history: handle of the release timer started by the first
                       \* transition out of the current speaking interval, while
                       \* that timer is pending; else 0
  staleTimers,         \* history: the handles of the pending release timers that
                       \* were started before the last resetSession() call
  lastCall             \* history: the last step of the coordinator taken on its own,
                       \* on the Voice page the user's last click
                       \* (a call of its interface with the stateRef it found and
                       \* its argument, a timer firing, the stateRef effect)

\* Synthesis Engine (useStableSpeechSynthesis)
VARIABLES
  isSupported,       \* useState(false), set by the mount effect
  isSpeaking,        \* useState(false)
  abortedRef,        \* useRef(false)
  retryCountRef,     \* useRef(0)
  resumeIntervalRef, \* useRef<number|null>: TRUE when an interval is installed
  runs,              \* the speak() calls made so far, in call order: each an async
                     \* function with its text, its place (pc), its loop index i and
                     \* the state of its utterance; the fields onStartCalls,
                     \* onEndCalls, onErrorCalls, submitted, ended, failed, stopped
                     \* and superseded are history
  synthQueue         \* speechSynthesis' utterance queue: the runs whose utterance
                     \* is queued, the head one being spoken

\* Recognition Engine (useStableSpeechRecognition, v2.0)
VARIABLES
  isListening,         \* useState(false)
  isListeningRendered, \* isListening as of the last render (the dependency the
                       \* isListeningRef effect compares)
  recognitionRef,      \* useRef<any>(null): TRUE once the engine object exists
  silenceTimerRef,     \* useRef<number|null>: TRUE when it holds a handle
  silenceTimerPending, \* the window.setTimeout that handle names has yet to fire
  finalTranscriptRef,  \* useRef('')
  lastProcessedRef,    \* useRef('')
  restartingRef,       \* useRef(false)
  shouldRestartRef,    \* useRef(false)
  isGatedRef,          \* useRef(isGated), copied from the isGated option by an effect
  startRequestedRef,   \* useRef(false)
  isListeningRef,      \* useRef(false)
  isMobile,            \* isMobileRef.current
  continuous,          \* continuousRef.current
  restartTimerPending, \* the 100 ms restart setTimeout of onend has yet to fire
  engine,              \* the SpeechRecognition object: inactive, starting, active
                       \* or stopping (stop() called or an error raised, end pending)
  lastDelivered,       \* history: the text of the last onResult call, <<>> if none
  deliveryTick,        \* history: flips at every onResult call
  restartStale,        \* history: the pending restart timer was scheduled before
                       \* the last stopListening() call
  stopRequested,       \* history: stopListening() has told a running engine to
                       \* stop while the buffer held non-empty text, and that
                       \* engine has not ended since
  heldAtGate           \* history: the buffer still holds the text it held when
                       \* the gate stopped the capture

\* Voice page (Home.tsx, component Voice)
VARIABLES
  processingRef,          \* useRef(false)
  chatStream,             \* the streamChat call of processPrompt: "open" while its
                          \* callbacks may still come, else "none"
  events                  \* history: the events from outside so far (clicks, capture
                          \* results, engine errors, engines ending by themselves)

coordVars == <<sessionState, isMicGated, isOutputActive, isMicGatedRendered,
               isOutputActiveRendered, stateRef, micGateTimeoutRef,
               pendingStateRef, transitionLockRef, releaseTimers, autoResumeListening,
               leaveTimer, staleTimers, lastCall>>

synthVars == <<isSupported, isSpeaking, abortedRef, retryCountRef, resumeIntervalRef,
               runs, synthQueue>>

recVars == <<isListening, isListeningRendered, recognitionRef, silenceTimerRef,
             silenceTimerPending, finalTranscriptRef, lastProcessedRef, restartingRef,
             shouldRestartRef, isGatedRef, startRequestedRef, isListeningRef, isMobile,
             continuous, restartTimerPending, engine, lastDelivered, deliveryTick,
             restartStale, stopRequested, heldAtGate>>

\* AI orchestrator (useAI.ts)
VARIABLES
  abortControllerRef,     \* useRef(null): the streamChat call whose AbortController
                          \* the ref holds (its position in requests), 0 for null
  requests                \* the streamChat calls so far, each with its position
                          \* (pc), its signal (aborted) and the callbacks it made

aiVars == <<abortControllerRef, requests>>

\* Chat page (Chat.tsx)
VARIABLES
  messagesRef,            \* useRef(messages): the chat's stored messages as of the
                          \* last render, each [role, content]
  lastUserMessageRef,     \* useRef(''): the last message the user sent
  selectedChatId,         \* useState(null)
  isAiResponding,         \* useState(false)
  submitted               \* history: the body of the last request handleRetry made
                          \* through streamChat, <<>> before the first one

chatVars == <<messagesRef, lastUserMessageRef, selectedChatId, isAiResponding, submitted>>

\* Voice selection of the synthesis hook
VARIABLES
  voices,                 \* useState([]): the platform's voices, each [name, lang]
  lockedVoicesRef,        \* useRef(new Map()): language key -> locked voice
  lastSelection           \* history: the last selectVoice call and its result

selectVars == <<voices, lockedVoicesRef, lastSelection>>

\* The device the page runs on
VARIABLES
  userAgent,              \* navigator.userAgent
  ontouchstart,           \* 'ontouchstart' in window
  maxTouchPoints,         \* navigator.maxTouchPoints
  innerWidth              \* window.innerWidth

deviceVars == <<userAgent, ontouchstart, maxTouchPoints, innerWidth>>

\* One streamChat call reading its response body
VARIABLES
  streamCall              \* [pc, body, buffer, fullResponse, deltas, completed,
                          \*  midLine]: the bytes still to arrive, the locals
                          \*  buffer and fullResponse, the increments handed to
                          \*  onDelta, the text handed to onComplete, and whether
                          \*  a read has ended inside a line

pageVars == <<processingRef, chatStream, events, aiVars, chatVars, selectVars, deviceVars, streamCall>>

vars == <<coordVars, synthVars, recVars, pageVars>>

(* ------------------------ Session Coordinator -------------------------- *)
NULL == "null"

VoiceSessionState == {"idle", "listening", "processing", "speaking"}

validTransitions ==
  [idle       |-> {"listening", "processing"},
   listening  |-> {"idle", "processing", "speaking"},
   processing |-> {"speaking", "idle", "listening"},
   speaking   |-> {"idle", "listening", "processing"}]

Range(s) == {s[i] : i \in DOMAIN s}

Without(s, x) == SelectSeq(s, LAMBDA y : y # x)

\* the handle window.setTimeout returns: one no pending timer has
FreshTimer(timers) == CHOOSE i \in 1..(Len(timers) + 1) : i \notin Range(timers)

\* the coordinator's state as one value, so that handlers compose
Coord ==
  [sessionState |-> sessionState, isMicGated |-> isMicGated,
   isOutputActive |-> isOutputActive, isMicGatedRendered |-> isMicGatedRendered,
   isOutputActiveRendered |-> isOutputActiveRendered, stateRef |-> stateRef,
   micGateTimeoutRef |-> micGateTimeoutRef, pendingStateRef |-> pendingStateRef,
   transitionLockRef |-> transitionLockRef, releaseTimers |-> releaseTimers,
   autoResumeListening |-> autoResumeListening, leaveTimer |-> leaveTimer,
   staleTimers |-> staleTimers]

SetCoord(c) ==
  /\ sessionState' = c.sessionState
  /\ isMicGated' = c.isMicGated
  /\ isOutputActive' = c.isOutputActive
  /\ isMicGatedRendered' = c.isMicGatedRendered
  /\ isOutputActiveRendered' = c.isOutputActiveRendered
  /\ stateRef' = c.stateRef
  /\ micGateTimeoutRef' = c.micGateTimeoutRef
  /\ pendingStateRef' = c.pendingStateRef
  /\ transitionLockRef' = c.transitionLockRef
  /\ releaseTimers' = c.releaseTimers
  /\ autoResumeListening' = c.autoResumeListening
  /\ leaveTimer' = c.leaveTimer
  /\ staleTimers' = c.staleTimers

\* clearTimeout(micGateTimeoutRef.current); micGateTimeoutRef.current = null
clearMicGateTimeout(c) ==
  IF c.micGateTimeoutRef # 0
  THEN [c EXCEPT !.releaseTimers = Without(@, c.micGateTimeoutRef),
                 !.leaveTimer = IF @ = c.micGateTimeoutRef THEN 0 ELSE @,
                 !.staleTimers = @ \ {c.micGateTimeoutRef},
                 !.micGateTimeoutRef = 0]
  ELSE c

gateMicrophone(c) ==
  [clearMicGateTimeout(c) EXCEPT !.isMicGated = TRUE, !.isOutputActive = TRUE,
                                 !.leaveTimer = 0]

releaseMicrophone(c) ==
  LET id == FreshTimer(c.releaseTimers)
  IN [c EXCEPT !.isOutputActive = FALSE,
               !.releaseTimers = Append(@, id),
               !.micGateTimeoutRef = id]

\* the callback releaseMicrophone hands to window.setTimeout, run for the
\* oldest pending timer
releaseTimerCallback(c) ==
  LET id == Head(c.releaseTimers)
      d  == [c EXCEPT !.isMicGated = FALSE,
                      !.micGateTimeoutRef = 0,
                      !.releaseTimers = Tail(@),
                      !.leaveTimer = IF @ = id THEN 0 ELSE @,
                      !.staleTimers = @ \ {id}]
  IN IF d.pendingStateRef # NULL /\ d.autoResumeListening
     THEN [d EXCEPT !.pendingStateRef = NULL, !.sessionState = d.pendingStateRef]
     ELSE d

\* transitionTo without the adjacency table
transitionTo_unchecked(c, newState) ==
  IF c.transitionLockRef THEN [c EXCEPT !.pendingStateRef = newState]
  ELSE IF newState = "speaking" THEN [gateMicrophone(c) EXCEPT !.sessionState = newState]
  ELSE IF c.stateRef = "speaking"
  THEN LET r == releaseMicrophone(c)
       IN IF newState = "listening" THEN [r EXCEPT !.pendingStateRef = "listening"]
          ELSE [r EXCEPT !.sessionState = newState]
  ELSE [c EXCEPT !.sessionState = newState]

\* transitionTo without the deferred speaking -> listening transition: the
\* target is published at once
transitionTo_immediate(c, newState) ==
  IF c.transitionLockRef
  THEN [c EXCEPT !.pendingStateRef = newState]
  ELSE IF newState \notin validTransitions[c.stateRef]
  THEN c
  ELSE IF newState = "speaking"
  THEN [gateMicrophone(c) EXCEPT !.sessionState = newState]
  ELSE IF c.stateRef = "speaking"
  THEN [releaseMicrophone(c) EXCEPT !.sessionState = newState]
  ELSE [c EXCEPT !.sessionState = newState]

transitionTo(c, newState) ==
  IF c.transitionLockRef
  THEN [c EXCEPT !.pendingStateRef = newState]
  ELSE IF newState \notin validTransitions[c.stateRef]
  THEN c
  ELSE IF newState = "speaking"
  THEN [gateMicrophone(c) EXCEPT !.sessionState = newState]
  ELSE IF c.stateRef = "speaking"
  THEN LET r == [releaseMicrophone(c) EXCEPT
                   !.leaveTimer = IF c.sessionState = "speaking" /\ @ = 0
                                  THEN FreshTimer(c.releaseTimers) ELSE @]
       IN IF newState = "listening"
          THEN [r EXCEPT !.pendingStateRef = "listening"]
          ELSE [r EXCEPT !.sessionState = newState]
  ELSE [c EXCEPT !.sessionState = newState]

\* useCallback(..., [isMicGated, isOutputActive]): the function a caller holds
\* is the one of the last render, with that render's isMicGated and
\* isOutputActive; stateRef.current is read at the call
canStartListening(c) ==
  ~c.isMicGatedRendered /\ ~c.isOutputActiveRendered /\ c.stateRef # "speaking"

resetSession(c) ==
  [clearMicGateTimeout(c) EXCEPT !.staleTimers = Range(clearMicGateTimeout(c).releaseTimers),
                                 !.pendingStateRef = NULL,
                                 !.transitionLockRef = FALSE,
                                 !.isMicGated = FALSE,
                                 !.isOutputActive = FALSE,
                                 !.sessionState = "idle",
                                 !.leaveTimer = 0]

\* useEffect(() => { stateRef.current = sessionState }, [sessionState])
syncStateRef(c) == [c EXCEPT !.stateRef = c.sessionState]

\* one commit of the hook: the state set so far is rendered (the callbacks are
\* created anew over it) and the stateRef effect runs
rerender(c) ==
  [syncStateRef(c) EXCEPT !.isMicGatedRendered = c.isMicGated,
                          !.isOutputActiveRendered = c.isOutputActive]

CoordInit ==
  /\ sessionState = "idle"
  /\ isMicGated = FALSE
  /\ isOutputActive = FALSE
  /\ isMicGatedRendered = FALSE
  /\ isOutputActiveRendered = FALSE
  /\ stateRef = "idle"
  /\ micGateTimeoutRef = 0
  /\ pendingStateRef = NULL
  /\ transitionLockRef = FALSE
  /\ releaseTimers = <<>>
  /\ leaveTimer = 0
  /\ staleTimers = {}
  /\ lastCall = <<"none">>

PageRefsInit ==
  /\ processingRef = FALSE
  /\ chatStream = "none"
  /\ events = 0
  /\ abortControllerRef = 0
  /\ requests = <<>>
  /\ messagesRef = <<>>
  /\ lastUserMessageRef = <<>>
  /\ selectedChatId = NULL
  /\ isAiResponding = FALSE
  /\ submitted = <<>>
  /\ streamCall = [pc |-> "none", body |-> <<>>, buffer |-> <<>>, fullResponse |-> <<>>,
                   deltas |-> <<>>, completed |-> <<>>, midLine |-> FALSE]

\* a device left unspecified
DeviceInit ==
  /\ userAgent = <<>>
  /\ ontouchstart = FALSE
  /\ maxTouchPoints = 0
  /\ innerWidth = 0

PageInit ==
  /\ PageRefsInit
  /\ voices = <<>>
  /\ lockedVoicesRef = <<>>
  /\ lastSelection = <<>>
  /\ DeviceInit

\* the timers the model keeps pending at once are bounded
TimersBounded(c) == Len(c.releaseTimers) <= MaxTimers

TransitionTo(newState) ==
  /\ TimersBounded(transitionTo(Coord, newState))
  /\ SetCoord(transitionTo(Coord, newState))
  /\ lastCall' = <<"transitionTo", stateRef, newState>>
  /\ UNCHANGED <<synthVars, recVars, pageVars>>

GateMicrophone ==
  /\ SetCoord(gateMicrophone(Coord))
  /\ lastCall' = <<"gateMicrophone">>
  /\ UNCHANGED <<synthVars, recVars, pageVars>>

ReleaseMicrophone ==
  /\ TimersBounded(releaseMicrophone(Coord))
  /\ SetCoord(releaseMicrophone(Coord))
  /\ lastCall' = <<"releaseMicrophone">>
  /\ UNCHANGED <<synthVars, recVars, pageVars>>

ResetSession ==
  /\ SetCoord(resetSession(Coord))
  /\ lastCall' = <<"resetSession">>
  /\ UNCHANGED <<synthVars, recVars, pageVars>>

ReleaseTimerFires ==
  /\ releaseTimers # <<>>
  /\ SetCoord(releaseTimerCallback(Coord))
  /\ lastCall' = <<"timer">>
  /\ UNCHANGED <<synthVars, recVars, pageVars>>

SyncStateRef ==
  /\ rerender(Coord) # Coord
  /\ SetCoord(rerender(Coord))
  /\ lastCall' = <<"effect">>
  /\ UNCHANGED <<synthVars, recVars, pageVars>>


(* --------------------------- Synthesis Engine --------------------------- *)
MAX_CHUNK_LENGTH == 150
MAX_RETRIES == 2

(* Strings are sequences of one-character strings. *)
IsSpace(ch) == ch = " " \/ ch = "\n" \/ ch = "\r" \/ ch = "\t"

TrimStart(str) ==
  IF str = <<>> \/ ~IsSpace(str[1]) THEN str
  ELSE LET kept == {k \in 1..Len(str) : ~IsSpace(str[k])}
       IN IF kept = {} THEN <<>>
          ELSE SubSeq(str, CHOOSE k \in kept : \A q \in kept : k <= q, Len(str))

TrimEnd(str) ==
  IF str = <<>> \/ ~IsSpace(str[Len(str)]) THEN str
  ELSE LET kept == {k \in 1..Len(str) : ~IsSpace(str[k])}
       IN IF kept = {} THEN <<>>
          ELSE SubSeq(str, 1, CHOOSE k \in kept : \A q \in kept : q <= k)

\* String.prototype.trim
Trim(str) == TrimEnd(TrimStart(str))

\* String.prototype.slice(from) and slice(0, to), 0-based as in the source
SliceFrom(str, from) == SubSeq(str, from + 1, Len(str))
SliceTo(str, to) == SubSeq(str, 1, IF to < Len(str) THEN to ELSE Len(str))

\* String.prototype.lastIndexOf(ch, fromIndex): the largest 0-based index
\* <= fromIndex that holds ch, -1 when there is none
LastIndexOf(str, ch, fromIndex) ==
  LET hits == {p \in 0..(Len(str) - 1) : p <= fromIndex /\ str[p + 1] = ch}
  IN IF hits = {} THEN -1 ELSE CHOOSE p \in hits : \A q \in hits : q <= p

\* the cut chunkText chooses in a remainder longer than MAX_CHUNK_LENGTH
\* (x > MAX * 0.5 is 2x > MAX, x > MAX * 0.3 is 10x > 3 MAX)
ChunkEnd(remaining) ==
  LET sentenceEnd == LastIndexOf(remaining, ".", MAX_CHUNK_LENGTH)
      comma       == LastIndexOf(remaining, ",", MAX_CHUNK_LENGTH)
      space       == LastIndexOf(remaining, " ", MAX_CHUNK_LENGTH)
  IN IF Len(remaining) > MAX_CHUNK_LENGTH
     THEN IF 2 * sentenceEnd > MAX_CHUNK_LENGTH THEN sentenceEnd + 1
          ELSE IF 2 * comma > MAX_CHUNK_LENGTH THEN comma + 1
          ELSE IF 10 * space > 3 * MAX_CHUNK_LENGTH THEN space + 1
          ELSE MAX_CHUNK_LENGTH
     ELSE Len(remaining)

\* the while loop of chunkText dropping the character at each cut
RECURSIVE ChunkLoop_lossy(_, _)
ChunkLoop_lossy(remaining, index) ==
  IF Len(remaining) = 0 THEN <<>>
  ELSE LET chunkEnd == ChunkEnd(remaining)
           chunkTextContent == Trim(SliceTo(remaining, chunkEnd))
           rest == Trim(SliceFrom(remaining, chunkEnd + 1))
       IN IF chunkTextContent # <<>>
          THEN <<[text |-> chunkTextContent, index |-> index]>>
                 \o ChunkLoop_lossy(rest, index + 1)
          ELSE ChunkLoop_lossy(rest, index)

\* the while loop of chunkText from the given remainder and index: the chunks
\* pushed, in push order
RECURSIVE ChunkLoop(_, _)
ChunkLoop(remaining, index) ==
  IF Len(remaining) = 0 THEN <<>>
  ELSE LET chunkEnd == ChunkEnd(remaining)
           chunkTextContent == Trim(SliceTo(remaining, chunkEnd))
           rest == Trim(SliceFrom(remaining, chunkEnd))
       IN IF chunkTextContent # <<>>
          THEN <<[text |-> chunkTextContent, index |-> index]>>
                 \o ChunkLoop(rest, index + 1)
          ELSE ChunkLoop(rest, index)

\* chunkText(text): the SpeechChunk array
chunkText(text) ==
  IF Len(text) <= MAX_CHUNK_LENGTH THEN <<[text |-> text, index |-> 0]>>
  ELSE ChunkLoop(text, 0)

Rep(ch, n) == [k \in 1..n |-> ch]

\* a text of n words of 100 letters, which chunkText cuts into n chunks
RECURSIVE WordsText(_)
WordsText(n) ==
  IF n <= 1 THEN Rep("a", 100) ELSE WordsText(n - 1) \o <<" ">> \o Rep("a", 100)

\* the texts handed to speak(): a whitespace-only one and one of every chunk count
Texts == {<<" ", " ">>} \cup {WordsText(n) : n \in 1..MaxChunks}

\* texts that put chunkText's cut at each of its branches: a full stop, a comma
\* and a space at index MAX_CHUNK_LENGTH, no separator at all, a sentence end
\* past the middle, a space too early to be used, blanks around the text and
\* a first slice that is blank
ChunkInputs ==
  { Rep("a", MAX_CHUNK_LENGTH) \o <<".">>,
    Rep("a", MAX_CHUNK_LENGTH) \o <<",">> \o Rep("b", 10),
    Rep("a", MAX_CHUNK_LENGTH) \o <<" ">> \o Rep("b", 10),
    Rep("a", MAX_CHUNK_LENGTH) \o Rep("b", 50),
    Rep("a", 100) \o <<".", " ">> \o Rep("b", 100),
    Rep("a", 40) \o <<" ">> \o Rep("b", 120),
    <<" ">> \o Rep("a", 160) \o <<" ">>,
    Rep(" ", MAX_CHUNK_LENGTH + 1) \o <<"a">>,
    <<" ", "a", " ">>,
    WordsText(MaxChunks) }

Synth ==
  [isSupported |-> isSupported, isSpeaking |-> isSpeaking, abortedRef |-> abortedRef,
   retryCountRef |-> retryCountRef, resumeIntervalRef |-> resumeIntervalRef,
   runs |-> runs, synthQueue |-> synthQueue, out |-> <<>>]

SetSynth(s) ==
  /\ isSupported' = s.isSupported
  /\ isSpeaking' = s.isSpeaking
  /\ abortedRef' = s.abortedRef
  /\ retryCountRef' = s.retryCountRef
  /\ resumeIntervalRef' = s.resumeIntervalRef
  /\ runs' = s.runs
  /\ synthQueue' = s.synthQueue

\* a run between its speak() call and the end of its finally block
InProgress(run) == run.pc # "done"

NumChunks(run) == Len(chunkText(run.text))

\* the options' callback cb, called by run r: counted, and handed to the caller
Emit(s, r, cb) ==
  [s EXCEPT !.out = Append(@, cb),
            !.runs[r] = IF cb = "onStart" THEN [@ EXCEPT !.onStartCalls = @ + 1]
                        ELSE IF cb = "onEnd" THEN [@ EXCEPT !.onEndCalls = @ + 1]
                        ELSE [@ EXCEPT !.onErrorCalls = @ + 1]]

cleanup(s) == [s EXCEPT !.resumeIntervalRef = FALSE, !.abortedRef = FALSE]

\* speechSynthesis.cancel(): every queued utterance leaves the queue and will
\* report the error interrupted (the one being spoken) or canceled
synthCancel(s) ==
  [s EXCEPT !.synthQueue = <<>>,
            !.runs = [r \in DOMAIN s.runs |->
                        IF r \in Range(s.synthQueue)
                        THEN [s.runs[r] EXCEPT !.utt = "cancelled"] ELSE s.runs[r]]]

\* a finally block that forgets onEnd
runFinally_silent(s, r) ==
  [cleanup(s) EXCEPT !.isSpeaking = FALSE, !.runs[r].pc = "done"]

\* the finally block of speak()
runFinally(s, r) ==
  LET a == [cleanup(s) EXCEPT !.isSpeaking = FALSE, !.runs[r].pc = "done"]
  IN IF ~a.abortedRef THEN Emit(a, r, "onEnd") ELSE a

\* speakChunk(chunks[i], chunks.length) up to the promise it returns
speakChunk(s, r) ==
  IF s.abortedRef
  THEN runFinally(s, r)          \* reject('aborted'), caught: break
  ELSE [s EXCEPT !.synthQueue = Append(@, r),
                 !.resumeIntervalRef = TRUE,
                 !.runs[r].utt = "queued",
                 !.runs[r].pc = "chunk",
                 !.runs[r].submitted = Append(@, s.runs[r].i)]

\* the head of the for loop of speak(), entered with the run's index i
runLoop(s, r) ==
  IF s.runs[r].i >= NumChunks(s.runs[r]) THEN runFinally(s, r)
  ELSE IF s.abortedRef THEN runFinally(s, r)
  ELSE speakChunk(s, r)

NewRun(text) ==
  [text |-> text, pc |-> "delay", i |-> 0, utt |-> "none",
   onStartCalls |-> 0, onEndCalls |-> 0, onErrorCalls |-> 0,
   submitted |-> <<>>, ended |-> {}, failed |-> {}, stopped |-> FALSE, superseded |-> FALSE]

\* speak(text) up to its first await
speak(s, text) ==
  IF ~s.isSupported \/ Trim(text) = <<>>
  THEN s
  ELSE LET a == cleanup(synthCancel(s))
           marked == [r \in DOMAIN a.runs |->
                        IF InProgress(a.runs[r])
                        THEN [a.runs[r] EXCEPT !.superseded = TRUE] ELSE a.runs[r]]
       IN [a EXCEPT !.abortedRef = FALSE,
                    !.retryCountRef = 0,
                    !.runs = Append(marked, NewRun(text))]

\* speak() after the 50 ms delay: setIsSpeaking(true), onStart, first iteration
speakAfterDelay(s, r) ==
  runLoop(Emit([s EXCEPT !.isSpeaking = TRUE, !.runs[r].i = 0], r, "onStart"), r)

\* utterance.onend of the run's chunk, and speak() up to its next await
utteranceOnEnd(s, r) ==
  LET run == s.runs[r]
      a == [s EXCEPT !.synthQueue = Tail(@),
                     !.runs[r].utt = "none",
                     !.runs[r].ended = @ \cup {run.i}]
  IN IF run.i < NumChunks(run) - 1 /\ ~a.abortedRef
     THEN [a EXCEPT !.runs[r].pc = "pause"]
     ELSE runLoop([a EXCEPT !.runs[r].i = @ + 1], r)

\* speak() after the pause between two chunks: i++ and the next iteration
speakAfterPause(s, r) == runLoop([s EXCEPT !.runs[r].i = @ + 1], r)

\* the catch block retrying without i--: the failed chunk is skipped
utteranceOnError_skip(s, r) ==
  LET a == [s EXCEPT !.synthQueue = Tail(@), !.runs[r].utt = "none",
                     !.runs[r].failed = @ \cup {s.runs[r].i}]
  IN IF a.retryCountRef < MAX_RETRIES
     THEN [a EXCEPT !.retryCountRef = @ + 1, !.runs[r].pc = "retryWait"]
     ELSE runFinally(Emit(a, r, "onError"), r)

\* utterance.onerror with an error other than interrupted or canceled, and the
\* catch block of the loop
utteranceOnError(s, r) ==
  LET a == [s EXCEPT !.synthQueue = Tail(@), !.runs[r].utt = "none",
                     !.runs[r].failed = @ \cup {s.runs[r].i}]
  IN IF a.retryCountRef < MAX_RETRIES
     THEN [a EXCEPT !.retryCountRef = @ + 1,
                    !.runs[r].i = @ - 1,
                    !.runs[r].pc = "retryWait"]
     ELSE runFinally(Emit(a, r, "onError"), r)

\* speak() after the 100 ms retry backoff: continue, i++, the next iteration
speakAfterRetryWait(s, r) == runLoop([s EXCEPT !.runs[r].i = @ + 1], r)

\* utterance.onerror with interrupted or canceled: reject('aborted'), break
utteranceOnAbort(s, r) == runFinally([s EXCEPT !.runs[r].utt = "none"], r)

stop(s) ==
  LET a == cleanup(synthCancel([s EXCEPT !.abortedRef = TRUE]))
  IN [a EXCEPT !.isSpeaking = FALSE,
               !.runs = [r \in DOMAIN a.runs |->
                           IF InProgress(a.runs[r])
                           THEN [a.runs[r] EXCEPT !.stopped = TRUE] ELSE a.runs[r]]]

SynthRefsInit ==
  /\ isSpeaking = FALSE
  /\ abortedRef = FALSE
  /\ retryCountRef = 0
  /\ resumeIntervalRef = FALSE
  /\ runs = <<>>
  /\ synthQueue = <<>>

SynthInit == isSupported = FALSE /\ SynthRefsInit

\* the mount effect on a platform that has speechSynthesis
MountSynthesis ==
  /\ ~isSupported
  /\ SetSynth([Synth EXCEPT !.isSupported = TRUE])
  /\ UNCHANGED <<coordVars, recVars, pageVars>>

Speak(text) ==
  /\ Len(runs) < MaxRuns
  /\ SetSynth(speak(Synth, text))
  /\ UNCHANGED <<coordVars, recVars, pageVars>>

Stop ==
  /\ SetSynth(stop(Synth))
  /\ UNCHANGED <<coordVars, recVars, pageVars>>

DelayElapsed ==
  \E r \in DOMAIN runs :
    /\ runs[r].pc = "delay"
    /\ SetSynth(speakAfterDelay(Synth, r))
    /\ UNCHANGED <<coordVars, recVars, pageVars>>

UtteranceEnds ==
  \E r \in DOMAIN runs :
    /\ synthQueue # <<>> /\ Head(synthQueue) = r
    /\ SetSynth(utteranceOnEnd(Synth, r))
    /\ UNCHANGED <<coordVars, recVars, pageVars>>

UtteranceFails ==
  \E r \in DOMAIN runs :
    /\ synthQueue # <<>> /\ Head(synthQueue) = r
    /\ SetSynth(utteranceOnError(Synth, r))
    /\ UNCHANGED <<coordVars, recVars, pageVars>>

UtteranceAborted ==
  \E r \in DOMAIN runs :
    /\ runs[r].utt = "cancelled"
    /\ SetSynth(utteranceOnAbort(Synth, r))
    /\ UNCHANGED <<coordVars, recVars, pageVars>>

PauseElapsed ==
  \E r \in DOMAIN runs :
    /\ runs[r].pc = "pause"
    /\ SetSynth(speakAfterPause(Synth, r))
    /\ UNCHANGED <<coordVars, recVars, pageVars>>

RetryWaitElapsed ==
  \E r \in DOMAIN runs :
    /\ runs[r].pc = "retryWait"
    /\ SetSynth(speakAfterRetryWait(Synth, r))
    /\ UNCHANGED <<coordVars, recVars, pageVars>>

(* -------------------------- Recognition Engine -------------------------- *)
\* String.prototype.toLowerCase, one character
LowerChar(ch) ==
  LET upper == <<"A", "B", "C", "D", "E", "F", "G", "H", "I", "J", "K", "L", "M",
                "N", "O", "P", "Q", "R", "S", "T", "U", "V", "W", "X", "Y", "Z">>
      lower == <<"a", "b", "c", "d", "e", "f", "g", "h", "i", "j", "k", "l", "m",
                "n", "o", "p", "q", "r", "s", "t", "u", "v", "w", "x", "y", "z">>
      hits  == {k \in DOMAIN upper : upper[k] = ch}
  IN IF hits = {} THEN ch ELSE lower[CHOOSE k \in hits : TRUE]

ToLowerCase(str) == [k \in 1..Len(str) |-> LowerChar(str[k])]

StartsWith(str, prefix) ==
  Len(prefix) <= Len(str) /\ SubSeq(str, 1, Len(prefix)) = prefix

EndsWith(str, suffix) ==
  Len(suffix) <= Len(str) /\ SubSeq(str, Len(str) - Len(suffix) + 1, Len(str)) = suffix

\* str.split(' ')
RECURSIVE Split(_)
Split(str) ==
  LET spaces == {k \in 1..Len(str) : str[k] = " "}
  IN IF spaces = {} THEN <<str>>
     ELSE LET k == CHOOSE x \in spaces : \A y \in spaces : x <= y
          IN <<SubSeq(str, 1, k - 1)>> \o Split(SubSeq(str, k + 1, Len(str)))

\* words.join(' ')
RECURSIVE Join(_)
Join(words) ==
  IF words = <<>> THEN <<>>
  ELSE IF Len(words) = 1 THEN words[1]
  ELSE words[1] \o <<" ">> \o Join(Tail(words))

\* the value of finalTranscriptRef after the desktop branch of onresult
\* (strategies A, B and C) has merged a final transcript into it
mergeDesktop(ref, finalTranscript) ==
  LET cleanNew == Trim(finalTranscript)
      currentRef == Trim(ref)
      words == Split(cleanNew)
      overlaps == {i \in 1..Len(words) : EndsWith(currentRef, Join(SubSeq(words, 1, i)))}
  IN IF StartsWith(ToLowerCase(cleanNew), ToLowerCase(currentRef)) /\ Len(currentRef) > 0
     THEN cleanNew
     ELSE IF currentRef # <<>> /\ cleanNew # <<>>
     THEN IF EndsWith(currentRef, cleanNew) THEN ref
          ELSE IF overlaps # {}
          THEN LET i == CHOOSE x \in overlaps : \A y \in overlaps : y <= x
                   remaining == Join(SubSeq(words, i + 1, Len(words)))
               IN ref \o (IF remaining # <<>> THEN <<" ">> \o remaining ELSE <<>>)
          ELSE ref \o (IF ref # <<>> THEN <<" ">> ELSE <<>>) \o cleanNew
     ELSE IF currentRef = <<>> THEN cleanNew
     ELSE ref

Rec ==
  [isListening |-> isListening, isListeningRendered |-> isListeningRendered,
   recognitionRef |-> recognitionRef, silenceTimerRef |-> silenceTimerRef,
   silenceTimerPending |-> silenceTimerPending,
   finalTranscriptRef |-> finalTranscriptRef, lastProcessedRef |-> lastProcessedRef,
   restartingRef |-> restartingRef, shouldRestartRef |-> shouldRestartRef,
   isGatedRef |-> isGatedRef, startRequestedRef |-> startRequestedRef,
   isListeningRef |-> isListeningRef, isMobile |-> isMobile, continuous |-> continuous,
   restartTimerPending |-> restartTimerPending, engine |-> engine,
   lastDelivered |-> lastDelivered, deliveryTick |-> deliveryTick,
   restartStale |-> restartStale, stopRequested |-> stopRequested,
   heldAtGate |-> heldAtGate, out |-> <<>>]

SetRec(r) ==
  /\ isListening' = r.isListening
  /\ isListeningRendered' = r.isListeningRendered
  /\ recognitionRef' = r.recognitionRef
  /\ silenceTimerRef' = r.silenceTimerRef
  /\ silenceTimerPending' = r.silenceTimerPending
  /\ finalTranscriptRef' = r.finalTranscriptRef
  /\ lastProcessedRef' = r.lastProcessedRef
  /\ restartingRef' = r.restartingRef
  /\ shouldRestartRef' = r.shouldRestartRef
  /\ isGatedRef' = r.isGatedRef
  /\ startRequestedRef' = r.startRequestedRef
  /\ isListeningRef' = r.isListeningRef
  /\ isMobile' = r.isMobile
  /\ continuous' = r.continuous
  /\ restartTimerPending' = r.restartTimerPending
  /\ engine' = r.engine
  /\ lastDelivered' = r.lastDelivered
  /\ deliveryTick' = r.deliveryTick
  /\ restartStale' = r.restartStale
  /\ stopRequested' = r.stopRequested
  /\ heldAtGate' = (r.heldAtGate /\ r.finalTranscriptRef # <<>>)

\* recognition.stop(): an engine that runs winds down, its end event pending
engineStop(e) ==
  IF e = "starting" THEN "aborting" ELSE IF e = "active" THEN "stopping" ELSE e

\* clearTimeout(silenceTimerRef.current)
clearSilenceTimeout(r) ==
  IF r.silenceTimerRef THEN [r EXCEPT !.silenceTimerPending = FALSE] ELSE r

\* onResultRef.current(text)
callOnResult(r, text) ==
  [r EXCEPT !.out = Append(@, <<"onResult", text>>),
            !.lastDelivered = text,
            !.deliveryTick = ~@]

stopListeningInternal(r) ==
  LET a == [clearSilenceTimeout(r) EXCEPT !.shouldRestartRef = FALSE,
                                           !.startRequestedRef = FALSE,
                                           !.silenceTimerRef = FALSE]
  IN [a EXCEPT !.engine = IF a.recognitionRef THEN engineStop(@) ELSE @,
               !.isListening = FALSE]

\* the effect on [isGated]
gateEffect(r, isGated) ==
  LET wasGated == r.isGatedRef
      a == [r EXCEPT !.isGatedRef = isGated]
  IN IF ~wasGated /\ isGated /\ a.isListeningRef
     THEN [stopListeningInternal(a) EXCEPT !.heldAtGate = Trim(a.finalTranscriptRef) # <<>>]
     ELSE a

\* the effect on [isListening]
listeningEffect(r) == [r EXCEPT !.isListeningRef = r.isListening]

\* one render of the hook: the effects whose dependency changed, in source order
recEffects(r, isGated) ==
  LET a == IF r.isListening # r.isListeningRendered THEN listeningEffect(r) ELSE r
      b == [a EXCEPT !.isListeningRendered = r.isListening]
  IN IF isGated # b.isGatedRef THEN gateEffect(b, isGated) ELSE b

\* the tail of onresult: reset the silence timer
resetSilenceTimer(r) ==
  LET a == clearSilenceTimeout(r)
  IN IF Trim(a.finalTranscriptRef) # <<>>
     THEN [a EXCEPT !.silenceTimerRef = TRUE, !.silenceTimerPending = TRUE]
     ELSE a

\* recognition.onresult, finalTranscript being the concatenation of the final
\* results of the event
onresult(r, finalTranscript) ==
  IF r.isGatedRef THEN r
  ELSE IF r.isMobile
  THEN IF finalTranscript # <<>>
       THEN IF Trim(finalTranscript) = r.lastProcessedRef THEN r
            ELSE resetSilenceTimer([r EXCEPT !.finalTranscriptRef = Trim(finalTranscript),
                                             !.heldAtGate = FALSE])
       ELSE resetSilenceTimer(r)
  ELSE resetSilenceTimer(
         [r EXCEPT !.finalTranscriptRef =
                     IF finalTranscript # <<>> THEN mergeDesktop(@, finalTranscript) ELSE @])

\* the callback of the silence timer without its test that the text is non-empty
silenceTimerCallback_unchecked(r) ==
  LET a == [r EXCEPT !.silenceTimerPending = FALSE]
      fullTranscript == Trim(a.finalTranscriptRef)
  IN IF fullTranscript = a.lastProcessedRef THEN a
     ELSE IF ~a.isGatedRef
     THEN [callOnResult([a EXCEPT !.lastProcessedRef = fullTranscript], fullTranscript)
             EXCEPT !.finalTranscriptRef = <<>>,
                    !.engine = IF ~a.continuous \/ a.isMobile THEN engineStop(@) ELSE @]
     ELSE a

\* the callback of the silence timer
silenceTimerCallback(r) ==
  LET a == [r EXCEPT !.silenceTimerPending = FALSE]
      fullTranscript == Trim(a.finalTranscriptRef)
  IN IF fullTranscript = a.lastProcessedRef THEN a
     ELSE IF fullTranscript # <<>> /\ ~a.isGatedRef
     THEN [callOnResult([a EXCEPT !.lastProcessedRef = fullTranscript], fullTranscript)
             EXCEPT !.finalTranscriptRef = <<>>,
                    !.engine = IF ~a.continuous \/ a.isMobile THEN engineStop(@) ELSE @]
     ELSE a

onstart(r) ==
  [r EXCEPT !.isListening = TRUE, !.isListeningRef = TRUE, !.startRequestedRef = FALSE]

\* "send any remaining transcript" that clears the buffer without sending it
sendRemaining_discard(r) ==
  IF Trim(r.finalTranscriptRef) # <<>> /\ ~r.isGatedRef
  THEN [r EXCEPT !.finalTranscriptRef = <<>>]
  ELSE r

\* "send any remaining transcript", shared by both branches of onend
sendRemaining(r) ==
  LET fullTranscript == Trim(r.finalTranscriptRef)
  IN IF fullTranscript # <<>> /\ ~r.isGatedRef
     THEN [(IF fullTranscript # r.lastProcessedRef
            THEN callOnResult([r EXCEPT !.lastProcessedRef = fullTranscript], fullTranscript)
            ELSE r)
             EXCEPT !.finalTranscriptRef = <<>>]
     ELSE r

\* recognition.onend without the restart branch
onend_norestart(e) ==
  LET r == [e EXCEPT !.stopRequested = FALSE]
      a == IF r.isMobile THEN [r EXCEPT !.isListening = FALSE, !.isListeningRef = FALSE]
           ELSE [clearSilenceTimeout([r EXCEPT !.isListening = FALSE,
                                               !.isListeningRef = FALSE])
                   EXCEPT !.silenceTimerRef = FALSE]
      b == sendRemaining(a)
  IN [b EXCEPT !.out = Append(@, <<"onEnd">>), !.startRequestedRef = FALSE]

onend(e) ==
  LET r == [e EXCEPT !.stopRequested = FALSE]
  IN IF r.isMobile
     THEN LET a == sendRemaining([r EXCEPT !.isListening = FALSE, !.isListeningRef = FALSE])
          IN [a EXCEPT !.out = Append(@, <<"onEnd">>), !.startRequestedRef = FALSE]
     ELSE IF r.shouldRestartRef /\ ~r.restartingRef /\ ~r.isGatedRef
     THEN [r EXCEPT !.restartingRef = TRUE, !.restartTimerPending = TRUE]
     ELSE LET a == [clearSilenceTimeout([r EXCEPT !.isListening = FALSE,
                                                  !.isListeningRef = FALSE])
                      EXCEPT !.silenceTimerRef = FALSE]
              b == sendRemaining(a)
          IN [b EXCEPT !.out = Append(@, <<"onEnd">>), !.startRequestedRef = FALSE]

\* the callback of the 100 ms restart timer of onend
restartTimerCallback(r) ==
  LET a == [r EXCEPT !.restartTimerPending = FALSE, !.restartStale = FALSE]
      b == IF a.shouldRestartRef /\ ~a.isGatedRef
           THEN IF a.engine = "inactive" THEN [a EXCEPT !.engine = "starting"]
                ELSE [a EXCEPT !.isListening = FALSE, !.isListeningRef = FALSE,
                               !.shouldRestartRef = FALSE]
           ELSE [a EXCEPT !.isListening = FALSE, !.isListeningRef = FALSE]
  IN [b EXCEPT !.restartingRef = FALSE]

\* recognition.onerror leaving auto-restart on
onerror_keepRestart(r, error) ==
  IF error \in {"no-speech", "aborted"} THEN r
  ELSE [r EXCEPT !.out = Append(@, <<"onError">>),
                 !.isListening = FALSE, !.isListeningRef = FALSE,
                 !.startRequestedRef = FALSE]

onerror(r, error) ==
  IF error \in {"no-speech", "aborted"} THEN r
  ELSE [r EXCEPT !.out = Append(@, <<"onError">>),
                 !.isListening = FALSE, !.isListeningRef = FALSE,
                 !.shouldRestartRef = FALSE, !.startRequestedRef = FALSE]

\* startListening(); start() throws on an engine that is not inactive, and
\* alreadyStarted tells whether the message of that exception contains
\* 'already started'
startListening(r, alreadyStarted) ==
  IF r.isGatedRef \/ ~r.recognitionRef \/ r.isListeningRef \/ r.startRequestedRef THEN r
  ELSE LET a == [r EXCEPT !.finalTranscriptRef = <<>>, !.lastProcessedRef = <<>>,
                          !.shouldRestartRef = r.continuous /\ ~r.isMobile,
                          !.startRequestedRef = TRUE]
       IN IF a.engine = "inactive" THEN [a EXCEPT !.engine = "starting"]
          ELSE IF alreadyStarted
          THEN [a EXCEPT !.startRequestedRef = FALSE,
                         !.isListening = TRUE, !.isListeningRef = TRUE]
          ELSE [a EXCEPT !.startRequestedRef = FALSE]

\* the value startListening() returns
startListeningResult(r, alreadyStarted) ==
  IF r.isGatedRef \/ ~r.recognitionRef THEN FALSE
  ELSE IF r.isListeningRef \/ r.startRequestedRef THEN TRUE
  ELSE r.engine = "inactive" \/ alreadyStarted

stopListening(r) ==
  [stopListeningInternal(r) EXCEPT
     !.restartStale = r.restartTimerPending,
     !.stopRequested = IF r.recognitionRef /\ r.engine # "inactive"
                       THEN Trim(r.finalTranscriptRef) # <<>> ELSE @]

clearTranscript(r) == [r EXCEPT !.finalTranscriptRef = <<>>, !.lastProcessedRef = <<>>]

RecRefsInit ==
  /\ isListening = FALSE
  /\ isListeningRendered = FALSE
  /\ silenceTimerRef = FALSE
  /\ silenceTimerPending = FALSE
  /\ finalTranscriptRef = <<>>
  /\ lastProcessedRef = <<>>
  /\ restartingRef = FALSE
  /\ shouldRestartRef = FALSE
  /\ isGatedRef = FALSE
  /\ startRequestedRef = FALSE
  /\ isListeningRef = FALSE
  /\ restartTimerPending = FALSE
  /\ engine = "inactive"
  /\ lastDelivered = <<>>
  /\ deliveryTick = FALSE
  /\ restartStale = FALSE
  /\ stopRequested = FALSE
  /\ heldAtGate = FALSE

RecInit == recognitionRef = FALSE /\ RecRefsInit

\* the final transcripts an onresult event carries (<<>>: interim results only)
Finals == {<<>>, <<"a">>, <<"b">>, <<"a", " ", "b">>, <<"A", " ">>}

\* final transcripts of whole phrases: two that share a word, two that share
\* the end of a word, one that extends another
Phrases ==
  { <<"t", "u", "r", "n", " ", "o", "n", " ", "t", "h", "e">>,
    <<"t", "h", "e", " ", "l", "i", "g", "h", "t", "s", " ", "p", "l", "e", "a", "s", "e">>,
    <<"c", "a", "t">>,
    <<"a", "t", " ", "h", "o", "m", "e">>,
    <<"c", "a", "t", " ", "n", "a", "p">> }

RecognitionErrors == {"no-speech", "aborted", "not-allowed", "network"}

\* the initialization effect on a platform that has SpeechRecognition
MountRecognition ==
  /\ ~recognitionRef
  /\ SetRec([Rec EXCEPT !.recognitionRef = TRUE])
  /\ UNCHANGED <<coordVars, synthVars, pageVars>>

StartListening(alreadyStarted) ==
  /\ SetRec(startListening(Rec, alreadyStarted))
  /\ UNCHANGED <<coordVars, synthVars, pageVars>>

StopListening ==
  /\ SetRec(stopListening(Rec))
  /\ UNCHANGED <<coordVars, synthVars, pageVars>>

ClearTranscript ==
  /\ SetRec(clearTranscript(Rec))
  /\ UNCHANGED <<coordVars, synthVars, pageVars>>

EngineStarts ==
  /\ engine = "starting"
  /\ SetRec(onstart([Rec EXCEPT !.engine = "active"]))
  /\ UNCHANGED <<coordVars, synthVars, pageVars>>

EngineResult(finalTranscript) ==
  /\ engine \in {"active", "stopping"}
  /\ Len(onresult(Rec, finalTranscript).finalTranscriptRef) <= MaxBufferLen
  /\ SetRec(onresult(Rec, finalTranscript))
  /\ UNCHANGED <<coordVars, synthVars, pageVars>>

EngineError(error) ==
  /\ engine \in {"starting", "active"}
  /\ SetRec(onerror([Rec EXCEPT !.engine = "aborting"], error))
  /\ UNCHANGED <<coordVars, synthVars, pageVars>>

EngineEnds ==
  /\ engine \in {"active", "stopping", "aborting"}
  /\ SetRec(onend([Rec EXCEPT !.engine = "inactive"]))
  /\ UNCHANGED <<coordVars, synthVars, pageVars>>

SilenceTimerFires ==
  /\ silenceTimerPending
  /\ SetRec(silenceTimerCallback(Rec))
  /\ UNCHANGED <<coordVars, synthVars, pageVars>>

RestartTimerFires ==
  /\ restartTimerPending
  /\ SetRec(restartTimerCallback(Rec))
  /\ UNCHANGED <<coordVars, synthVars, pageVars>>

\* a render of the hook with the current value of the isGated option
RecRender ==
  /\ isListening # isListeningRendered \/ isMicGated # isGatedRef
  /\ SetRec(recEffects(Rec, isMicGated))
  /\ UNCHANGED <<coordVars, synthVars, pageVars>>

\* the host of the hook changes the isGated option
HostSetsGate(gated) ==
  /\ isMicGated # gated
  /\ isMicGated' = gated
  /\ UNCHANGED <<sessionState, isOutputActive, isMicGatedRendered,
                 isOutputActiveRendered, stateRef, micGateTimeoutRef,
                 pendingStateRef, transitionLockRef, releaseTimers,
                 autoResumeListening, leaveTimer, staleTimers, lastCall>>
  /\ UNCHANGED <<synthVars, recVars, pageVars>>

(* The Recognition Engine alone, under any host: any sequence of calls of  *)
(* its interface, of engine events and of changes of the isGated option.   *)
InitRec ==
  /\ CoordInit /\ autoResumeListening = FALSE
  /\ SynthInit
  /\ RecInit /\ isMobile \in BOOLEAN /\ continuous \in BOOLEAN
  /\ PageInit

NextRec ==
  \/ MountRecognition
  \/ \E alreadyStarted \in BOOLEAN : StartListening(alreadyStarted)
  \/ StopListening
  \/ ClearTranscript
  \/ EngineStarts
  \/ \E finalTranscript \in Finals : EngineResult(finalTranscript)
  \/ \E error \in RecognitionErrors : EngineError(error)
  \/ EngineEnds
  \/ SilenceTimerFires
  \/ RestartTimerFires
  \/ RecRender
  \/ \E gated \in BOOLEAN : HostSetsGate(gated)

SpecRec == InitRec /\ [][NextRec]_vars

\* onresult with a final transcript that is a whole phrase
EnginePhrase(finalTranscript) ==
  /\ engine \in {"active", "stopping"}
  /\ Len(onresult(Rec, finalTranscript).finalTranscriptRef) <= MaxMergeLen
  /\ SetRec(onresult(Rec, finalTranscript))
  /\ UNCHANGED <<coordVars, synthVars, pageVars>>

\* the desktop hook in single-shot mode fed with phrases, never gated
InitMerge ==
  /\ CoordInit /\ autoResumeListening = FALSE
  /\ SynthInit
  /\ RecInit /\ isMobile = FALSE /\ continuous = FALSE
  /\ PageInit

NextMerge ==
  \/ MountRecognition
  \/ \E alreadyStarted \in BOOLEAN : StartListening(alreadyStarted)
  \/ EngineStarts
  \/ \E finalTranscript \in Phrases : EnginePhrase(finalTranscript)
  \/ EngineEnds
  \/ SilenceTimerFires

SpecMerge == InitMerge /\ [][NextMerge]_vars

\* the hook driven by startListening, stopListening, the engine's events, its
\* timers and its host's gate only (clearTranscript is never called)
NextRecSession ==
  \/ MountRecognition
  \/ \E alreadyStarted \in BOOLEAN : StartListening(alreadyStarted)
  \/ StopListening
  \/ EngineStarts
  \/ \E finalTranscript \in Finals : EngineResult(finalTranscript)
  \/ \E error \in RecognitionErrors : EngineError(error)
  \/ EngineEnds
  \/ SilenceTimerFires
  \/ RestartTimerFires
  \/ RecRender
  \/ \E gated \in BOOLEAN : HostSetsGate(gated)

SpecRecSession == InitRec /\ [][NextRecSession]_vars

(* ---------------------------- Voice selection --------------------------- *)
\* str.includes(sub)
Includes(str, sub) ==
  \E i \in 1..(Len(str) - Len(sub) + 1) : SubSeq(str, i, i + Len(sub) - 1) = sub

\* language.split('-')[0]
BeforeDash(str) ==
  LET dashes == {k \in 1..Len(str) : str[k] = "-"}
  IN IF dashes = {} THEN str
     ELSE SubSeq(str, 1, (CHOOSE x \in dashes : \A y \in dashes : x <= y) - 1)

\* LANGUAGE_CAPABILITIES, by language prefix; a prefix outside the table has
\* the default of getLanguageCapability
getLanguageCapability(language) ==
  LET langPrefix == ToLowerCase(BeforeDash(language))
  IN IF langPrefix = <<"e", "n">>
     THEN [supportsMale |-> TRUE, supportsFemale |-> TRUE, defaultGender |-> "female"]
     ELSE IF langPrefix \in {<<"e", "s">>, <<"f", "r">>, <<"d", "e">>, <<"i", "t">>, <<"p", "t">>, <<"j", "a">>, <<"k", "o">>, <<"z", "h">>, <<"r", "u">>,
                        <<"n", "l">>, <<"p", "l">>, <<"t", "r">>, <<"h", "i">>, <<"t", "a">>, <<"t", "e">>, <<"v", "i">>, <<"t", "h">>, <<"i", "d">>}
     THEN [supportsMale |-> FALSE, supportsFemale |-> TRUE, defaultGender |-> "female"]
     ELSE [supportsMale |-> FALSE, supportsFemale |-> TRUE, defaultGender |-> "neutral"]

languageSupportsGender(language, gender) ==
  IF gender = "male" THEN getLanguageCapability(language).supportsMale
  ELSE getLanguageCapability(language).supportsFemale

MALE_VOICE_PATTERNS == <<
    <<"d", "a", "v", "i", "d">>,
    <<"m", "a", "r", "k">>,
    <<"r", "i", "c", "h", "a", "r", "d">>,
    <<"g", "e", "o", "r", "g", "e">>,
    <<"j", "a", "m", "e", "s">>,
    <<"s", "e", "a", "n">>,
    <<"m", "a", "l", "e">>,
    <<"m", "a", "n">>,
    <<"a", "l", "e", "x">>,
    <<"d", "a", "n", "i", "e", "l">>,
    <<"o", "l", "i", "v", "e", "r">>,
    <<"f", "r", "e", "d">>,
    <<"t", "h", "o", "m", "a", "s">>,
    <<"g", "o", "r", "d", "o", "n">>,
    <<"l", "e", "e">>,
    <<"b", "r", "u", "c", "e">>,
    <<"g", "o", "o", "g", "l", "e", ".", "*", "m", "a", "l", "e">>,
    <<"m", "i", "c", "r", "o", "s", "o", "f", "t", ".", "*", "d", "a", "v", "i", "d">>,
    <<"m", "i", "c", "r", "o", "s", "o", "f", "t", ".", "*", "m", "a", "r", "k">> >>

FEMALE_VOICE_PATTERNS == <<
    <<"z", "i", "r", "a">>,
    <<"s", "a", "m", "a", "n", "t", "h", "a">>,
    <<"v", "i", "c", "t", "o", "r", "i", "a">>,
    <<"k", "a", "r", "e", "n">>,
    <<"m", "o", "i", "r", "a">>,
    <<"f", "i", "o", "n", "a">>,
    <<"f", "e", "m", "a", "l", "e">>,
    <<"w", "o", "m", "a", "n">>,
    <<"s", "u", "s", "a", "n">>,
    <<"l", "i", "n", "d", "a">>,
    <<"k", "a", "t", "e">>,
    <<"c", "a", "t", "h", "e", "r", "i", "n", "e">>,
    <<"e", "m", "i", "l", "y">>,
    <<"e", "m", "m", "a">>,
    <<"a", "v", "a">>,
    <<"s", "o", "p", "h", "i", "a">>,
    <<"g", "o", "o", "g", "l", "e", ".", "*", "f", "e", "m", "a", "l", "e">>,
    <<"m", "i", "c", "r", "o", "s", "o", "f", "t", ".", "*", "z", "i", "r", "a">> >>

\* new RegExp(pattern.replace(/\*/g, '.*')).test(nameLower) for a pattern
\* head.*tail: head, one character, anything, tail
RegExpTest(pattern, nameLower) ==
  LET star == CHOOSE k \in DOMAIN pattern : pattern[k] = "*"
      head == SubSeq(pattern, 1, star - 2)
      tail == SubSeq(pattern, star + 1, Len(pattern))
  IN \E i \in 1..Len(nameLower), j \in 1..Len(nameLower) :
       /\ i + Len(head) - 1 <= Len(nameLower)
       /\ SubSeq(nameLower, i, i + Len(head) - 1) = head
       /\ j >= i + Len(head) + 1
       /\ j + Len(tail) - 1 <= Len(nameLower)
       /\ SubSeq(nameLower, j, j + Len(tail) - 1) = tail

matchesPatterns(voiceName, patterns) ==
  LET nameLower == ToLowerCase(voiceName)
  IN \E k \in DOMAIN patterns :
       IF Includes(patterns[k], <<"*">>) THEN RegExpTest(patterns[k], nameLower)
       ELSE Includes(nameLower, patterns[k])

\* null as a SpeechSynthesisVoice
NoVoice == [name |-> <<>>, lang |-> <<>>]

\* array.find(test) || fallback
Find(array, test(_), fallback) ==
  LET hits == {k \in DOMAIN array : test(array[k])}
  IN IF hits = {} THEN fallback
     ELSE array[CHOOSE k \in hits : \A q \in hits : k <= q]

\* array.filter(test)
Filter(array, test(_)) == SelectSeq(array, test)

VoiceSelector ==
  [voices |-> voices, lockedVoicesRef |-> lockedVoicesRef]

\* the voice selectVoice picks once the cache has missed and the voice list is
\* not empty, choosing by the requested gender whatever the language supports
pickVoice_anyGender(v, targetLanguage, requestedGender) ==
  LET langPrefix == ToLowerCase(BeforeDash(targetLanguage))
      langKey == ToLowerCase(targetLanguage)
      exact == Filter(v.voices, LAMBDA x : ToLowerCase(x.lang) = langKey)
      langVoices == IF exact # <<>> THEN exact
                    ELSE Filter(v.voices, LAMBDA x : StartsWith(ToLowerCase(x.lang), langPrefix))
      maleVoice == IF requestedGender = "male"
                   THEN Find(langVoices, LAMBDA x : matchesPatterns(x.name, MALE_VOICE_PATTERNS),
                             NoVoice)
                   ELSE NoVoice
      quality == Find(langVoices,
                      LAMBDA x : \/ Includes(ToLowerCase(x.name), <<"g", "o", "o", "g", "l", "e">>)
                                 \/ Includes(ToLowerCase(x.name), <<"m", "i", "c", "r", "o", "s", "o", "f", "t">>),
                      langVoices[1])
  IN IF langVoices = <<>> THEN v.voices[1]
     ELSE IF maleVoice # NoVoice THEN maleVoice
     ELSE Find(langVoices, LAMBDA x : matchesPatterns(x.name, FEMALE_VOICE_PATTERNS), quality)

\* the voice selectVoice picks once the cache has missed and the voice list is
\* not empty
pickVoice(v, targetLanguage, requestedGender) ==
  LET langPrefix == ToLowerCase(BeforeDash(targetLanguage))
      langKey == ToLowerCase(targetLanguage)
      capability == getLanguageCapability(targetLanguage)
      effectiveGender == IF requestedGender = "male" /\ ~capability.supportsMale
                         THEN "female" ELSE requestedGender
      exact == Filter(v.voices, LAMBDA x : ToLowerCase(x.lang) = langKey)
      langVoices == IF exact # <<>> THEN exact
                    ELSE Filter(v.voices, LAMBDA x : StartsWith(ToLowerCase(x.lang), langPrefix))
      maleVoice == IF langPrefix = <<"e", "n">> /\ effectiveGender = "male"
                   THEN Find(langVoices, LAMBDA x : matchesPatterns(x.name, MALE_VOICE_PATTERNS),
                             NoVoice)
                   ELSE NoVoice
      quality == Find(langVoices,
                      LAMBDA x : \/ Includes(ToLowerCase(x.name), <<"g", "o", "o", "g", "l", "e">>)
                                 \/ Includes(ToLowerCase(x.name), <<"m", "i", "c", "r", "o", "s", "o", "f", "t">>),
                      langVoices[1])
  IN IF langVoices = <<>> THEN v.voices[1]
     ELSE IF maleVoice # NoVoice THEN maleVoice
     ELSE Find(langVoices, LAMBDA x : matchesPatterns(x.name, FEMALE_VOICE_PATTERNS), quality)

\* selectVoice(targetLanguage, requestedGender): the voice returned (NoVoice for
\* null) and the cache afterwards
selectVoice(v, targetLanguage, requestedGender) ==
  LET langKey == ToLowerCase(targetLanguage)
      cachedVoice == v.lockedVoicesRef[langKey]
  IN IF cachedVoice # NoVoice /\ \E k \in DOMAIN v.voices : v.voices[k].name = cachedVoice.name
     THEN [voice |-> cachedVoice, lockedVoicesRef |-> v.lockedVoicesRef]
     ELSE IF Len(v.voices) = 0
     THEN [voice |-> NoVoice, lockedVoicesRef |-> v.lockedVoicesRef]
     ELSE LET selectedVoice == pickVoice(v, targetLanguage, requestedGender)
          IN [voice |-> selectedVoice,
              lockedVoicesRef |-> [v.lockedVoicesRef EXCEPT ![langKey] = selectedVoice]]

\* the languages selectVoice is asked for and the voices a platform may offer
TargetLanguages == {<<"f", "r", "-", "F", "R">>, <<"e", "n", "-", "U", "S">>, <<"d", "e", "-", "D", "E">>}

Genders == {"male", "female"}

PlatformVoices ==
  { [name |-> <<"Z", "i", "r", "a">>, lang |-> <<"f", "r", "-", "F", "R">>],
    [name |-> <<"D", "a", "v", "i", "d">>, lang |-> <<"f", "r", "-", "F", "R">>],
    [name |-> <<"A", "m", "e", "l", "i", "e">>, lang |-> <<"f", "r", "-", "C", "A">>],
    [name |-> <<"D", "a", "v", "i", "d">>, lang |-> <<"e", "n", "-", "U", "S">>] }

VoiceLists == UNION {[1..n -> PlatformVoices] : n \in 1..MaxVoices}

\* loadVoices: speechSynthesis.getVoices() is kept when it is not empty
VoicesChanged(availableVoices) ==
  /\ voices # availableVoices
  /\ voices' = availableVoices
  /\ UNCHANGED <<lockedVoicesRef, lastSelection>>
  /\ UNCHANGED <<coordVars, synthVars, recVars, processingRef, chatStream, events,
                 aiVars, chatVars, deviceVars, streamCall>>

SelectVoice(targetLanguage, requestedGender) ==
  LET r == selectVoice(VoiceSelector, targetLanguage, requestedGender)
  IN /\ lockedVoicesRef' = r.lockedVoicesRef
     /\ lastSelection' = [language |-> targetLanguage, gender |-> requestedGender,
                          voice |-> r.voice]
     /\ UNCHANGED voices
     /\ UNCHANGED <<coordVars, synthVars, recVars, processingRef, chatStream, events,
                    aiVars, chatVars, deviceVars, streamCall>>

\* resetVoiceLock: the cache is emptied
ResetVoiceLock ==
  /\ lockedVoicesRef' = [k \in DOMAIN lockedVoicesRef |-> NoVoice]
  /\ UNCHANGED <<voices, lastSelection>>
  /\ UNCHANGED <<coordVars, synthVars, recVars, processingRef, chatStream, events,
                 aiVars, chatVars, deviceVars, streamCall>>

VoiceSelectInit ==
  /\ voices = <<>>
  /\ lockedVoicesRef = [k \in {ToLowerCase(l) : l \in TargetLanguages} |-> NoVoice]
  /\ lastSelection = [language |-> <<>>, gender |-> "female", voice |-> NoVoice]

(* selectVoice under any sequence of calls and of changes of the voice list. *)
InitSelect ==
  /\ CoordInit /\ autoResumeListening = FALSE
  /\ SynthInit
  /\ RecInit /\ isMobile = FALSE /\ continuous = TRUE
  /\ PageRefsInit
  /\ VoiceSelectInit
  /\ DeviceInit

NextSelect ==
  \/ \E availableVoices \in VoiceLists : VoicesChanged(availableVoices)
  \/ \E targetLanguage \in TargetLanguages, requestedGender \in Genders :
       SelectVoice(targetLanguage, requestedGender)
  \/ ResetVoiceLock

SpecSelect == InitSelect /\ [][NextSelect]_vars

(* --------------------------- Device detection --------------------------- *)
Navigator ==
  [userAgent |-> userAgent, ontouchstart |-> ontouchstart,
   maxTouchPoints |-> maxTouchPoints, innerWidth |-> innerWidth]

\* mobileUserAgentPatterns of the Mobile Detector, each /pattern/i, lower-cased
mobileUserAgentPatterns == <<
    <<"a", "n", "d", "r", "o", "i", "d">>,
    <<"w", "e", "b", "o", "s">>,
    <<"i", "p", "h", "o", "n", "e">>,
    <<"i", "p", "a", "d">>,
    <<"i", "p", "o", "d">>,
    <<"b", "l", "a", "c", "k", "b", "e", "r", "r", "y">>,
    <<"w", "i", "n", "d", "o", "w", "s", " ", "p", "h", "o", "n", "e">>,
    <<"o", "p", "e", "r", "a", " ", "m", "i", "n", "i">>,
    <<"i", "e", "m", "o", "b", "i", "l", "e">>,
    <<"m", "o", "b", "i", "l", "e">>,
    <<"t", "a", "b", "l", "e", "t">> >>

\* the alternatives of the regular expression of the recognition hook
recognitionUserAgentPatterns == <<
    <<"a", "n", "d", "r", "o", "i", "d">>,
    <<"w", "e", "b", "o", "s">>,
    <<"i", "p", "h", "o", "n", "e">>,
    <<"i", "p", "a", "d">>,
    <<"i", "p", "o", "d">>,
    <<"b", "l", "a", "c", "k", "b", "e", "r", "r", "y">>,
    <<"i", "e", "m", "o", "b", "i", "l", "e">>,
    <<"o", "p", "e", "r", "a", " ", "m", "i", "n", "i">>,
    <<"m", "o", "b", "i", "l", "e">>,
    <<"t", "a", "b", "l", "e", "t">> >>

\* patterns.some(pattern => /pattern/i.test(ua))
TestAny(patterns, ua) ==
  \E k \in DOMAIN patterns : Includes(ToLowerCase(ua), patterns[k])

\* isMobileDevice() of utils/deviceDetection (window and navigator exist)
isMobileDevice(n) ==
  LET hasTouchScreen == n.ontouchstart \/ n.maxTouchPoints > 0
      isSmallScreen == n.innerWidth <= 768
      isMobileUserAgent == TestAny(mobileUserAgentPatterns, n.userAgent)
  IN (hasTouchScreen /\ isSmallScreen) \/ isMobileUserAgent

\* isMobileDevice() local to the recognition hook
isMobileDeviceLocal(n) ==
  IF n.userAgent = <<>> THEN FALSE
  ELSE TestAny(recognitionUserAgentPatterns, ToLowerCase(n.userAgent))

UserAgents ==
  { <<"M", "o", "z", "i", "l", "l", "a", "/", "5", ".", "0", " ", "(", "X",
      "1", "1", ";", " ", "L", "i", "n", "u", "x", " ", "x", "8", "6", "_",
      "6", "4", ")">>,
    <<"M", "o", "z", "i", "l", "l", "a", "/", "5", ".", "0", " ", "(", "M",
      "a", "c", "i", "n", "t", "o", "s", "h", ";", " ", "I", "n", "t", "e",
      "l", " ", "M", "a", "c", " ", "O", "S", " ", "X", " ", "1", "0", "_",
      "1", "5", ")">>,
    <<"M", "o", "z", "i", "l", "l", "a", "/", "5", ".", "0", " ", "(", "L",
      "i", "n", "u", "x", ";", " ", "A", "n", "d", "r", "o", "i", "d", " ",
      "1", "3", ")", " ", "M", "o", "b", "i", "l", "e">>,
    <<"M", "o", "z", "i", "l", "l", "a", "/", "5", ".", "0", " ", "(", "W",
      "i", "n", "d", "o", "w", "s", " ", "P", "h", "o", "n", "e", " ", "1",
      "0", ".", "0", ")">>,
    <<>> }

TouchPoints == {0, 5}

InnerWidths == {768, 769}

\* the recognition hook constructed on any device, in single-shot mode:
\* isMobileRef = useRef(isMobileDevice())
InitDevice ==
  /\ CoordInit /\ autoResumeListening = FALSE
  /\ SynthInit
  /\ userAgent \in UserAgents
  /\ ontouchstart \in BOOLEAN
  /\ maxTouchPoints \in TouchPoints
  /\ innerWidth \in InnerWidths
  /\ RecInit /\ isMobile = isMobileDeviceLocal(Navigator) /\ continuous = FALSE
  /\ PageRefsInit
  /\ voices = <<>> /\ lockedVoicesRef = <<>> /\ lastSelection = <<>>

NextDevice ==
  \/ MountRecognition
  \/ \E alreadyStarted \in BOOLEAN : StartListening(alreadyStarted)
  \/ EngineStarts
  \/ \E finalTranscript \in Finals : EngineResult(finalTranscript)
  \/ EngineEnds
  \/ SilenceTimerFires

SpecDevice == InitDevice /\ [][NextDevice]_vars

(* ------------------------------ Voice page ------------------------------ *)
\* the page's state as one value: the three hooks and the page's own refs
World ==
  [c |-> Coord, s |-> Synth, r |-> Rec, processingRef |-> processingRef,
   chatStream |-> chatStream, events |-> events, lastCall |-> lastCall]

SetWorld(w) ==
  /\ SetCoord(w.c)
  /\ lastCall' = w.lastCall
  /\ SetSynth(w.s)
  /\ SetRec(w.r)
  /\ processingRef' = w.processingRef
  /\ chatStream' = w.chatStream
  /\ events' = w.events
  /\ UNCHANGED <<aiVars, chatVars, selectVars, deviceVars, streamCall>>

handleSpeechEnd(w) ==
  IF ~w.processingRef THEN [w EXCEPT !.c = transitionTo(@, "listening")] ELSE w

handleSpeechError(w) == [w EXCEPT !.c = transitionTo(@, "idle")]

\* processPrompt(prompt) up to the streamChat call
processPrompt(w, prompt) ==
  IF Trim(prompt) = <<>> \/ w.processingRef THEN w
  ELSE [w EXCEPT !.processingRef = TRUE,
                 !.c = transitionTo(@, "processing"),
                 !.chatStream = "open"]

handleSpeechResult(w, transcript) ==
  IF Trim(transcript) = <<>> \/ w.processingRef THEN w
  ELSE processPrompt(w, transcript)

\* the callbacks a synthesis operation made, handed to the page's handlers
RECURSIVE dispatchSynth(_, _)
dispatchSynth(w, out) ==
  IF out = <<>> THEN w
  ELSE dispatchSynth(IF Head(out) = "onEnd" THEN handleSpeechEnd(w)
                     ELSE IF Head(out) = "onError" THEN handleSpeechError(w)
                     ELSE w,
                     Tail(out))

withSynth(w, s) == dispatchSynth([w EXCEPT !.s = [s EXCEPT !.out = <<>>]], s.out)

\* the callbacks a recognition operation made, handed to the page's handlers
\* (onEnd only logs, onError is not passed)
RECURSIVE dispatchRec(_, _)
dispatchRec(w, out) ==
  IF out = <<>> THEN w
  ELSE dispatchRec(IF Head(out)[1] = "onResult" THEN handleSpeechResult(w, Head(out)[2])
                   ELSE w,
                   Tail(out))

withRec(w, r) == dispatchRec([w EXCEPT !.r = [r EXCEPT !.out = <<>>]], r.out)

\* "I'm here and listening. Please try again.": one chunk
fallback == WordsText(1)

\* onComplete / onError without the speak() call
streamDone_unspoken(w, response) ==
  [w EXCEPT !.chatStream = "none",
            !.processingRef = FALSE,
            !.c = transitionTo(@, "speaking")]

\* onComplete / onError of processPrompt's streamChat call, with the text spoken
streamDone(w, response) ==
  LET a == [w EXCEPT !.chatStream = "none",
                     !.processingRef = FALSE,
                     !.c = transitionTo(@, "speaking")]
  IN withSynth(a, speak(a.s, response))

\* one commit of the page: the effects whose dependencies changed, in source order
render(w, alreadyStarted) ==
  LET depsChanged == \/ w.c.sessionState # w.c.stateRef
                     \/ w.r.isListening # w.r.isListeningRendered
                     \/ w.c.isMicGated # w.r.isGatedRef
                     \/ w.c.isOutputActive # w.c.isOutputActiveRendered
      c1 == rerender(w.c)
      r1 == recEffects(w.r, c1.isMicGated)
      r2 == IF depsChanged /\ c1.sessionState = "listening" /\ ~w.r.isListening
               /\ canStartListening(c1)
            THEN startListening(r1, alreadyStarted) ELSE r1
  IN withRec([w EXCEPT !.c = c1], r2)

\* handleMicToggle as created by the last render (its sessionState is the
\* rendered one, which stateRef holds)
handleMicToggle(w) ==
  IF w.c.stateRef = "listening"
  THEN LET a == withRec(w, stopListening(w.r))
       IN [a EXCEPT !.c = transitionTo(@, "idle")]
  ELSE IF w.c.stateRef = "speaking"
  THEN LET a == withSynth(w, stop(w.s))
           b == withRec(a, clearTranscript(a.r))
       IN [b EXCEPT !.c = transitionTo(@, "listening")]
  ELSE IF w.c.stateRef = "idle"
  THEN [w EXCEPT !.c = transitionTo(@, "listening")]
  ELSE w

handleStop(w) ==
  LET a == [w EXCEPT !.c = resetSession(@)]
      b == withSynth(a, stop(a.s))
      d == withRec(b, stopListening(b.r))
  IN [d EXCEPT !.chatStream = "none", !.processingRef = FALSE]

WorldBounded(w) ==
  /\ TimersBounded(w.c)
  /\ Len(w.s.runs) <= MaxRuns
  /\ Len(w.r.finalTranscriptRef) <= MaxBufferLen
  /\ w.events <= MaxEvents

Step(w) == WorldBounded(w) /\ SetWorld(w)

\* an event from outside the page
Outside(w) == [w EXCEPT !.events = @ + 1]

VRender ==
  /\ \/ sessionState # stateRef
     \/ isListening # isListeningRendered
     \/ isMicGated # isGatedRef
     \/ isOutputActive # isOutputActiveRendered
  /\ \E alreadyStarted \in BOOLEAN : Step(render(World, alreadyStarted))

\* a click on the mic button, disabled while the page shows processing
VMicToggle ==
  /\ stateRef # "processing"
  /\ Step([handleMicToggle(Outside(World)) EXCEPT !.lastCall = <<"handleMicToggle">>])

\* a click on the stop button, shown unless the page shows idle
VStop ==
  /\ stateRef # "idle"
  /\ Step([handleStop(Outside(World)) EXCEPT !.lastCall = <<"handleStop">>])

VStreamCompletes(response) ==
  /\ chatStream = "open"
  /\ Step(streamDone(World, response))

VStreamFails ==
  /\ chatStream = "open"
  /\ Step(streamDone(World, fallback))

VReleaseTimerFires ==
  /\ releaseTimers # <<>>
  /\ Step([World EXCEPT !.c = releaseTimerCallback(@)])

VDelayElapsed ==
  \E r \in DOMAIN runs :
    /\ runs[r].pc = "delay"
    /\ Step(withSynth(World, speakAfterDelay(Synth, r)))

VUtteranceEnds ==
  \E r \in DOMAIN runs :
    /\ synthQueue # <<>> /\ Head(synthQueue) = r
    /\ Step(withSynth(World, utteranceOnEnd(Synth, r)))

VUtteranceFails ==
  \E r \in DOMAIN runs :
    /\ synthQueue # <<>> /\ Head(synthQueue) = r
    /\ Step(withSynth(World, utteranceOnError(Synth, r)))

VUtteranceAborted ==
  \E r \in DOMAIN runs :
    /\ runs[r].utt = "cancelled"
    /\ Step(withSynth(World, utteranceOnAbort(Synth, r)))

VPauseElapsed ==
  \E r \in DOMAIN runs :
    /\ runs[r].pc = "pause"
    /\ Step(withSynth(World, speakAfterPause(Synth, r)))

VRetryWaitElapsed ==
  \E r \in DOMAIN runs :
    /\ runs[r].pc = "retryWait"
    /\ Step(withSynth(World, speakAfterRetryWait(Synth, r)))

VEngineStarts ==
  /\ engine = "starting"
  /\ Step(withRec(World, onstart([Rec EXCEPT !.engine = "active"])))

VEngineResult(finalTranscript) ==
  /\ engine \in {"active", "stopping"}
  /\ Step(withRec(Outside(World), onresult(Rec, finalTranscript)))

VEngineError(error) ==
  /\ engine \in {"starting", "active"}
  /\ Step(withRec(Outside(World), onerror([Rec EXCEPT !.engine = "aborting"], error)))

VEngineEnds ==
  /\ engine \in {"active", "stopping", "aborting"}
  /\ Step(withRec(IF engine = "active" THEN Outside(World) ELSE World,
                  onend([Rec EXCEPT !.engine = "inactive"])))

VSilenceTimerFires ==
  /\ silenceTimerPending
  /\ Step(withRec(World, silenceTimerCallback(Rec)))

VRestartTimerFires ==
  /\ restartTimerPending
  /\ Step(withRec(World, restartTimerCallback(Rec)))

\* what the user says in a voice session, as final transcripts
VoiceFinals == {<<"a">>}

\* the replies of the model: a blank one, and one of MaxChunks chunks
Responses == {<<" ", " ">>, WordsText(MaxChunks)}

\* an error the engine's onerror ignores, and one it reports
VoiceErrors == {"no-speech", "network"}

(* The Voice page: coordinator (autoResumeListening: true), synthesis and   *)
(* recognition (continuous: true) wired by the page's handlers and effects, *)
(* on a platform that has both speech interfaces, after the mount effects.  *)
InitVoice ==
  /\ CoordInit /\ autoResumeListening = TRUE
  /\ isSupported = TRUE /\ SynthRefsInit
  /\ recognitionRef = TRUE /\ RecRefsInit /\ isMobile \in BOOLEAN /\ continuous = TRUE
  /\ PageInit

NextVoice ==
  \/ VRender
  \/ VMicToggle
  \/ VStop
  \/ \E response \in Responses : VStreamCompletes(response)
  \/ VStreamFails
  \/ VReleaseTimerFires
  \/ VDelayElapsed
  \/ VUtteranceEnds
  \/ VUtteranceFails
  \/ VUtteranceAborted
  \/ VPauseElapsed
  \/ VRetryWaitElapsed
  \/ VEngineStarts
  \/ \E finalTranscript \in VoiceFinals : VEngineResult(finalTranscript)
  \/ \E error \in VoiceErrors : VEngineError(error)
  \/ VEngineEnds
  \/ VSilenceTimerFires
  \/ VRestartTimerFires

SpecVoice == InitVoice /\ [][NextVoice]_vars

(* The Synthesis Engine alone, under any sequence of speak() and stop() calls. *)
InitSynth ==
  /\ CoordInit /\ autoResumeListening = FALSE
  /\ SynthInit
  /\ RecInit /\ isMobile = FALSE /\ continuous = TRUE
  /\ PageInit

NextSynth ==
  \/ MountSynthesis
  \/ \E text \in Texts : Speak(text)
  \/ Stop
  \/ DelayElapsed
  \/ UtteranceEnds
  \/ UtteranceFails
  \/ UtteranceAborted
  \/ PauseElapsed
  \/ RetryWaitElapsed

SpecSynth == InitSynth /\ [][NextSynth]_vars

(* ----------------------------- AI orchestrator ---------------------------- *)
AI == [abortControllerRef |-> abortControllerRef, requests |-> requests]

SetAI(a) ==
  /\ abortControllerRef' = a.abortControllerRef
  /\ requests' = a.requests

\* a streamChat call that has just issued its fetch
NewRequest ==
  [pc |-> "fetch", aborted |-> FALSE, deltas |-> 0,
   completed |-> FALSE, errored |-> FALSE, late |-> {}]

\* abortControllerRef.current.abort()
abortCurrent(a) ==
  IF a.abortControllerRef # 0
  THEN [a EXCEPT !.requests[a.abortControllerRef].aborted = TRUE]
  ELSE a

\* call c invokes its callback cb; late remembers the ones made after its abort
invoke(a, c, cb) ==
  LET q == a.requests[c]
      n == IF cb = "onDelta" THEN [q EXCEPT !.deltas = @ + 1]
           ELSE IF cb = "onComplete" THEN [q EXCEPT !.completed = TRUE]
           ELSE [q EXCEPT !.errored = TRUE]
  IN [a EXCEPT !.requests[c] =
        [n EXCEPT !.late = IF q.aborted THEN @ \cup {cb} ELSE @]]

\* streamChat() up to await fetch
streamChat(a) ==
  LET b == abortCurrent(a)
  IN [b EXCEPT !.requests = Append(@, NewRequest),
               !.abortControllerRef = Len(b.requests) + 1]

cancel(a) == [abortCurrent(a) EXCEPT !.abortControllerRef = 0]

\* the catch block of streamChat for a rejection named name
catchError(a, c, name) ==
  LET b == [a EXCEPT !.requests[c].pc = "done"]
  IN IF name = "AbortError" THEN b ELSE invoke(b, c, "onError")

\* await fetch settles: rejected with AbortError once the signal is aborted,
\* else resolved with an ok response, a response that is not ok, one without a
\* body, or rejected by the network
fetchSettles(a, c, outcome) ==
  IF a.requests[c].aborted THEN catchError(a, c, "AbortError")
  ELSE IF outcome = "ok" THEN [a EXCEPT !.requests[c].pc = "read"]
  ELSE IF outcome = "notOk" THEN [a EXCEPT !.requests[c].pc = "errorBody"]
  ELSE catchError(a, c, "Error")

\* await response.json().catch(() => ({})) settles: whatever the body read did,
\* an AbortError included, the call throws new Error(...)
errorBodySettles(a, c) == catchError(a, c, "Error")

\* await reader.read() settles: rejected with AbortError once the signal is
\* aborted, else a chunk with content, the end of the stream, or a failure
readSettles(a, c, result) ==
  IF a.requests[c].aborted THEN catchError(a, c, "AbortError")
  ELSE IF result = "delta" THEN invoke(a, c, "onDelta")
  ELSE IF result = "done" THEN invoke([a EXCEPT !.requests[c].pc = "done"], c, "onComplete")
  ELSE catchError(a, c, "TypeError")

FetchOutcomes == {"ok", "notOk", "noBody", "failed"}
ReadResults == {"delta", "done", "failed"}

StreamChat ==
  /\ Len(requests) < MaxCalls
  /\ SetAI(streamChat(AI))
  /\ UNCHANGED <<coordVars, synthVars, recVars, processingRef, chatStream, events, chatVars,
                 selectVars, deviceVars, streamCall>>

Cancel ==
  /\ SetAI(cancel(AI))
  /\ UNCHANGED <<coordVars, synthVars, recVars, processingRef, chatStream, events, chatVars,
                 selectVars, deviceVars, streamCall>>

FetchSettles(c, outcome) ==
  /\ requests[c].pc = "fetch"
  /\ SetAI(fetchSettles(AI, c, outcome))
  /\ UNCHANGED <<coordVars, synthVars, recVars, processingRef, chatStream, events, chatVars,
                 selectVars, deviceVars, streamCall>>

ErrorBodySettles(c) ==
  /\ requests[c].pc = "errorBody"
  /\ SetAI(errorBodySettles(AI, c))
  /\ UNCHANGED <<coordVars, synthVars, recVars, processingRef, chatStream, events, chatVars,
                 selectVars, deviceVars, streamCall>>

ReadSettles(c, result) ==
  /\ requests[c].pc = "read"
  /\ result = "delta" => requests[c].deltas < MaxDeltas
  /\ SetAI(readSettles(AI, c, result))
  /\ UNCHANGED <<coordVars, synthVars, recVars, processingRef, chatStream, events, chatVars,
                 selectVars, deviceVars, streamCall>>

(* useAI under any sequence of streamChat() and cancel() calls and of network
   events. *)
InitAI == InitSynth

NextAI ==
  \/ StreamChat
  \/ Cancel
  \/ \E c \in DOMAIN requests, outcome \in FetchOutcomes : FetchSettles(c, outcome)
  \/ \E c \in DOMAIN requests : ErrorBodySettles(c)
  \/ \E c \in DOMAIN requests, result \in ReadResults : ReadSettles(c, result)

SpecAI == InitAI /\ [][NextAI]_vars

(* ------------------------- streamChat: the stream ------------------------ *)
\* buffer.indexOf(ch), 0-based, -1 when there is none
IndexOf(str, c) ==
  LET hits == {k \in 1..Len(str) : str[k] = c}
  IN IF hits = {} THEN -1 ELSE (CHOOSE k \in hits : \A q \in hits : k <= q) - 1

\* buffer.split('\n')
RECURSIVE SplitLines(_)
SplitLines(str) ==
  LET newlineIndex == IndexOf(str, "\n")
  IN IF newlineIndex = -1 THEN <<str>>
     ELSE <<SliceTo(str, newlineIndex)>> \o SplitLines(SliceFrom(str, newlineIndex + 1))

ContentPrefix ==
    <<"{", "\"", "c", "h", "o", "i", "c", "e", "s", "\"", ":", "[",
    "{", "\"", "d", "e", "l", "t", "a", "\"", ":", "{", "\"", "c",
    "o", "n", "t", "e", "n", "t", "\"", ":", "\"">>

ContentSuffix == <<"\"", "}", "}", "]", "}">>

\* JSON.parse(jsonStr) and parsed.choices?.[0]?.delta?.content, for the payloads
\* of the streams below: [ok, content], content <<>> when there is none; any
\* other text is not JSON
parseContent(jsonStr) ==
  IF /\ StartsWith(jsonStr, ContentPrefix) /\ EndsWith(jsonStr, ContentSuffix)
     /\ Len(jsonStr) >= Len(ContentPrefix) + Len(ContentSuffix)
     /\ IndexOf(SubSeq(jsonStr, Len(ContentPrefix) + 1,
                       Len(jsonStr) - Len(ContentSuffix)), "\"") = -1
  THEN [ok |-> TRUE,
        content |-> SubSeq(jsonStr, Len(ContentPrefix) + 1, Len(jsonStr) - Len(ContentSuffix))]
  ELSE IF jsonStr = <<"{", "}">> THEN [ok |-> TRUE, content |-> <<>>]
  ELSE [ok |-> FALSE, content |-> <<>>]

\* content added to fullResponse without the onDelta call
takeContent_silent(st, content) == [st EXCEPT !.fullResponse = @ \o content]

\* fullResponse += content; onDelta(content)
takeContent(st, content) ==
  [st EXCEPT !.fullResponse = @ \o content, !.deltas = Append(@, content)]

\* what a line is to the loop: skipped, or the payload of a data line
lineKind(line) ==
  LET stripped == IF EndsWith(line, <<"\r">>) THEN SliceTo(line, Len(line) - 1) ELSE line
      jsonStr == Trim(SliceFrom(stripped, 6))
  IN IF StartsWith(stripped, <<":">>) \/ Trim(stripped) = <<>>
     THEN [skip |-> TRUE, line |-> stripped, parsed |-> parseContent(<<>>)]
     ELSE IF ~StartsWith(stripped, <<"d", "a", "t", "a", ":", " ">>)
     THEN [skip |-> TRUE, line |-> stripped, parsed |-> parseContent(<<>>)]
     ELSE IF jsonStr = <<"[", "D", "O", "N", "E", "]">>
     THEN [skip |-> TRUE, line |-> stripped, parsed |-> parseContent(<<>>)]
     ELSE [skip |-> FALSE, line |-> stripped, parsed |-> parseContent(jsonStr)]

\* the inner while loop of streamChat: line by line, an unparsable line is put
\* back in front of the buffer and ends the loop
RECURSIVE processLines(_)
processLines(st) ==
  LET newlineIndex == IndexOf(st.buffer, "\n")
      k == lineKind(SliceTo(st.buffer, newlineIndex))
      rest == SliceFrom(st.buffer, newlineIndex + 1)
      a == [st EXCEPT !.buffer = rest]
  IN IF newlineIndex = -1 THEN st
     ELSE IF k.skip THEN processLines(a)
     ELSE IF ~k.parsed.ok THEN [a EXCEPT !.buffer = k.line \o <<"\n">> \o rest]
     ELSE IF k.parsed.content # <<>> THEN processLines(takeContent(a, k.parsed.content))
     ELSE processLines(a)

\* the final flush over buffer.split('\n'): unparsable leftovers are ignored
RECURSIVE flushLines(_, _)
flushLines(st, raws) ==
  IF raws = <<>> THEN st
  ELSE LET k == lineKind(Head(raws))
       IN IF Head(raws) = <<>> \/ k.skip \/ ~k.parsed.ok \/ k.parsed.content = <<>>
          THEN flushLines(st, Tail(raws))
          ELSE flushLines(takeContent(st, k.parsed.content), Tail(raws))

\* reader.read() resolves with the next n characters of the body
readChunk(st, n) ==
  LET a == processLines([st EXCEPT !.buffer = @ \o SubSeq(st.body, 1, n),
                                   !.body = SubSeq(@, n + 1, Len(@))])
  IN [a EXCEPT !.midLine = @ \/ (a.buffer # <<>> /\ a.body # <<>>)]

\* reader.read() resolves with done: final flush, onComplete(fullResponse)
readDone(st) ==
  LET a == IF Trim(st.buffer) # <<>> THEN flushLines(st, SplitLines(st.buffer)) ELSE st
  IN [a EXCEPT !.pc = "done", !.completed = <<a.fullResponse>>]

\* response bodies: plain events; CRLF line ends, a comment, a blank line and a
\* last line without its newline; a line that is not JSON before a good one;
\* an event line, an empty content, an object without choices
Bodies ==
  { <<"d", "a", "t", "a", ":", " ", "{", "\"", "c", "h", "o", "i",
      "c", "e", "s", "\"", ":", "[", "{", "\"", "d", "e", "l", "t",
      "a", "\"", ":", "{", "\"", "c", "o", "n", "t", "e", "n", "t",
      "\"", ":", "\"", "H", "i", "\"", "}", "}", "]", "}", "\n", "d",
      "a", "t", "a", ":", " ", "{", "\"", "c", "h", "o", "i", "c",
      "e", "s", "\"", ":", "[", "{", "\"", "d", "e", "l", "t", "a",
      "\"", ":", "{", "\"", "c", "o", "n", "t", "e", "n", "t", "\"",
      ":", "\"", " ", "a", "l", "l", "\"", "}", "}", "]", "}", "\n",
      "d", "a", "t", "a", ":", " ", "[", "D", "O", "N", "E", "]",
      "\n">>,
    <<":", " ", "p", "i", "n", "g", "\r", "\n", "d", "a", "t", "a",
      ":", " ", "{", "\"", "c", "h", "o", "i", "c", "e", "s", "\"",
      ":", "[", "{", "\"", "d", "e", "l", "t", "a", "\"", ":", "{",
      "\"", "c", "o", "n", "t", "e", "n", "t", "\"", ":", "\"", "H",
      "i", "\"", "}", "}", "]", "}", "\r", "\n", "\r", "\n", "d", "a",
      "t", "a", ":", " ", "{", "\"", "c", "h", "o", "i", "c", "e",
      "s", "\"", ":", "[", "{", "\"", "d", "e", "l", "t", "a", "\"",
      ":", "{", "\"", "c", "o", "n", "t", "e", "n", "t", "\"", ":",
      "\"", "!", "\"", "}", "}", "]", "}">>,
    <<"d", "a", "t", "a", ":", " ", "{", "\"", "c", "h", "o", "i",
      "c", "e", "s", "\"", ":", "[", "{", "\"", "d", "e", "l", "t",
      "a", "\"", ":", "{", "\"", "c", "o", "n", "t", "e", "n", "t",
      "\"", ":", "\"", "A", "\"", "}", "}", "]", "}", "\n", "d", "a",
      "t", "a", ":", " ", "{", "\"", "c", "h", "o", "i", "c", "e",
      "s", "\n", "d", "a", "t", "a", ":", " ", "{", "\"", "c", "h",
      "o", "i", "c", "e", "s", "\"", ":", "[", "{", "\"", "d", "e",
      "l", "t", "a", "\"", ":", "{", "\"", "c", "o", "n", "t", "e",
      "n", "t", "\"", ":", "\"", "B", "\"", "}", "}", "]", "}", "\n">>,
    <<"e", "v", "e", "n", "t", ":", " ", "x", "\n", "d", "a", "t",
      "a", ":", " ", "{", "\"", "c", "h", "o", "i", "c", "e", "s",
      "\"", ":", "[", "{", "\"", "d", "e", "l", "t", "a", "\"", ":",
      "{", "\"", "c", "o", "n", "t", "e", "n", "t", "\"", ":", "\"",
      "\"", "}", "}", "]", "}", "\n", "d", "a", "t", "a", ":", " ",
      "{", "}", "\n", "d", "a", "t", "a", ":", " ", "{", "\"", "c",
      "h", "o", "i", "c", "e", "s", "\"", ":", "[", "{", "\"", "d",
      "e", "l", "t", "a", "\"", ":", "{", "\"", "c", "o", "n", "t",
      "e", "n", "t", "\"", ":", "\"", "o", "k", "\"", "}", "}", "]",
      "}", "\n">> }

SetStreamCall(st) ==
  /\ streamCall' = st
  /\ UNCHANGED <<coordVars, synthVars, recVars, processingRef, chatStream, events,
                 aiVars, chatVars, selectVars, deviceVars>>

\* the response arrives: its body is any of Bodies
ResponseArrives(body) ==
  /\ streamCall.pc = "none"
  /\ SetStreamCall([streamCall EXCEPT !.pc = "read", !.body = body])

ReadChunk(n) ==
  /\ streamCall.pc = "read"
  /\ n <= Len(streamCall.body)
  /\ SetStreamCall(readChunk(streamCall, n))

ReadDone ==
  /\ streamCall.pc = "read"
  /\ streamCall.body = <<>>
  /\ SetStreamCall(readDone(streamCall))

(* One streamChat call whose response body arrives split into reads of any  *)
(* sizes.                                                                   *)
InitStream == InitSynth

NextStream ==
  \/ \E body \in Bodies : ResponseArrives(body)
  \/ \E n \in 1..MaxRead : ReadChunk(n)
  \/ ReadDone

SpecStream == InitStream /\ [][NextStream]_vars

(* ------------------------------- Chat page ------------------------------ *)
\* the roles and contents of stored messages
MessageRoles == {"user", "ai"}
Contents == {<<"A">>, <<"B">>}
StoredMessages == [role : MessageRoles, content : Contents]

\* the histories of at most MaxHistory stored messages
Histories == UNION {[1..n -> StoredMessages] : n \in 0..MaxHistory}

\* the role a message is given in a conversation history and in the request body
assistantRole(role) == IF role = "user" THEN "user" ELSE "assistant"

\* the for loop of handleRetry from index i (1-based here)
RECURSIVE retryLoop(_, _)
retryLoop(currentMessages, i) ==
  IF i > Len(currentMessages) THEN <<>>
  ELSE LET m == currentMessages[i]
       IN IF i = Len(currentMessages) /\ m.role = "ai"
          THEN retryLoop(currentMessages, i + 1)
          ELSE <<[role |-> assistantRole(m.role), content |-> m.content]>>
                 \o retryLoop(currentMessages, i + 1)

\* the for loop of handleRetry skipping every ai message
RECURSIVE retryLoop_noAi(_, _)
retryLoop_noAi(currentMessages, i) ==
  IF i > Len(currentMessages) THEN <<>>
  ELSE LET m == currentMessages[i]
       IN IF m.role = "ai"
          THEN retryLoop_noAi(currentMessages, i + 1)
          ELSE <<[role |-> assistantRole(m.role), content |-> m.content]>>
                 \o retryLoop_noAi(currentMessages, i + 1)

\* the conversationHistory handleRetry builds
conversationHistory_noAi(currentMessages) == retryLoop_noAi(currentMessages, 1)

conversationHistory(currentMessages) == retryLoop(currentMessages, 1)

\* the JSON body streamChat posts, the temperature in tenths
requestBody(messages, temperature) ==
  [messages |-> [k \in DOMAIN messages |->
                   [role |-> assistantRole(messages[k].role),
                    content |-> messages[k].content]],
   temperature |-> temperature]

\* handleRetry returns at once without a last user message, without a chat, or
\* while the AI responds
retryRefused ==
  lastUserMessageRef = <<>> \/ selectedChatId = NULL \/ isAiResponding

\* handleRetry: stop the speech, cancel the request in flight, and stream the
\* history again at temperature 0.9
HandleRetry ==
  /\ Len(requests) < MaxCalls
  /\ IF retryRefused
     THEN UNCHANGED <<synthVars, aiVars, chatVars>>
     ELSE /\ SetSynth(IF isSpeaking THEN stop(Synth) ELSE Synth)
          /\ SetAI(streamChat(cancel(AI)))
          /\ isAiResponding' = TRUE
          /\ submitted' = requestBody(conversationHistory(messagesRef), 9)
          /\ UNCHANGED <<messagesRef, lastUserMessageRef, selectedChatId>>
  /\ UNCHANGED <<coordVars, recVars, processingRef, chatStream, events, selectVars,
                 deviceVars, streamCall>>

(* handleRetry applied to every stored history of at most MaxHistory messages. *)
InitChat ==
  /\ CoordInit /\ autoResumeListening = FALSE
  /\ SynthInit
  /\ RecInit /\ isMobile = FALSE /\ continuous = TRUE
  /\ processingRef = FALSE /\ chatStream = "none" /\ events = 0
  /\ abortControllerRef = 0 /\ requests = <<>>
  /\ messagesRef \in Histories
  /\ lastUserMessageRef \in {<<>>} \cup Contents
  /\ selectedChatId \in {NULL, "chat"}
  /\ isAiResponding \in BOOLEAN
  /\ submitted = <<>>
  /\ streamCall = [pc |-> "none", body |-> <<>>, buffer |-> <<>>, fullResponse |-> <<>>,
                   deltas |-> <<>>, completed |-> <<>>, midLine |-> FALSE]
  /\ voices = <<>> /\ lockedVoicesRef = <<>> /\ lastSelection = <<>>
  /\ DeviceInit

NextChat == HandleRetry

SpecChat == InitChat /\ [][NextChat]_vars

(* chunkText applied by speak() to texts around its cut points. *)
InitChunk == InitSynth

NextChunk ==
  \/ MountSynthesis
  \/ \E text \in ChunkInputs : Speak(text)
  \/ Stop
  \/ DelayElapsed
  \/ UtteranceEnds
  \/ PauseElapsed

SpecChunk == InitChunk /\ [][NextChunk]_vars

(* The coordinator alone, driven by any sequence of calls of its interface. *)
InitCoord ==
  /\ CoordInit
  /\ autoResumeListening \in BOOLEAN
  /\ SynthInit
  /\ RecInit /\ isMobile = FALSE /\ continuous = TRUE
  /\ PageInit

NextCoord ==
  \/ \E s \in VoiceSessionState : TransitionTo(s)
  \/ GateMicrophone
  \/ ReleaseMicrophone
  \/ ResetSession
  \/ ReleaseTimerFires
  \/ SyncStateRef

SpecCoord == InitCoord /\ [][NextCoord]_vars

(* The coordinator driven through transitionTo and resetSession only, as the *)
(* Voice page drives it.                                                     *)
NextCoordFsm ==
  \/ \E s \in VoiceSessionState : TransitionTo(s)
  \/ ResetSession
  \/ ReleaseTimerFires
  \/ SyncStateRef

SpecCoordFsm == InitCoord /\ [][NextCoordFsm]_vars

(* ------------------------------- claims -------------------------------- *)

\* C1: in every reachable state of the Session Coordinator, whenever
\* sessionState is speaking the mic gate is true.
C1_GatedWhileSpeaking == sessionState = "speaking" => isMicGated

\* C4: once the coordinator has left speaking, the gate goes from true to false
\* only when the release timer started by that transition fires, or by
\* resetSession.
C4_UngateOnlyAfterLeaveDelay ==
  [][ (leaveTimer # 0 /\ isMicGated /\ ~isMicGated')
        => \/ ResetSession
           \/ (ReleaseTimerFires /\ Head(releaseTimers) = leaveTimer) ]_vars

\* C10: while the coordinator is in speaking (state and stateRef), a request
\* transitionTo(listening) leaves sessionState speaking and records the request
\* as pending; sessionState leaves speaking only when a release timer fires, or
\* by resetSession or a transitionTo of another target.
C10_SpeakingUntilRelease ==
  [][ (sessionState = "speaking" /\ stateRef = "speaking")
        => /\ TransitionTo("listening")
                => (sessionState' = "speaking" /\ pendingStateRef' = "listening")
           /\ sessionState' # "speaking"
                => \/ ReleaseTimerFires
                   \/ ResetSession
                   \/ TransitionTo("idle")
                   \/ TransitionTo("processing") ]_vars

\* C10 witness: a listening request is pending in speaking, its timer running
C10_Witness ==
  /\ sessionState = "speaking" /\ stateRef = "speaking"
  /\ pendingStateRef = "listening" /\ releaseTimers # <<>> /\ isMicGated

\* C5: after stop() is called during a speak() run, that run never calls onEnd.
C5_NoOnEndAfterStop ==
  [][ \A r \in DOMAIN runs :
        runs[r].stopped => runs'[r].onEndCalls = runs[r].onEndCalls ]_vars

\* C6: after stop() is called during a speak() run, no further chunk of that
\* run is submitted to speechSynthesis.
C6_NoChunkAfterStop ==
  [][ \A r \in DOMAIN runs :
        runs[r].stopped => runs'[r].submitted = runs[r].submitted ]_vars

\* C7: a run during which speak() is called again submits no further chunk
\* and calls no onEnd.
C7_SupersededRunCancelled ==
  [][ \A r \in DOMAIN runs :
        runs[r].superseded => /\ runs'[r].submitted = runs[r].submitted
                              /\ runs'[r].onEndCalls = runs[r].onEndCalls ]_vars

\* chunk i + 1 is submitted only after chunk i has reported end
EndedBeforeNext(run) ==
  \A k \in DOMAIN run.submitted :
    run.submitted[k] > 0 => (run.submitted[k] - 1) \in run.ended

\* C8 (as claimed): within a run the submitted chunk indices increase strictly,
\* and chunk i + 1 is never submitted before chunk i has reported end.
C8_StrictlyIncreasing ==
  \A r \in DOMAIN runs :
    /\ \A k \in 2..Len(runs[r].submitted) :
          runs[r].submitted[k] > runs[r].submitted[k - 1]
    /\ EndedBeforeNext(runs[r])

\* C8 (amended): within a run the first submitted index is 0 and each later one
\* is the previous one plus one, or the previous one again when that chunk failed
\* with a non-abort error (a retry); chunk i + 1 is never submitted before chunk
\* i has reported end.
C8_SequentialWithRetry ==
  \A r \in DOMAIN runs :
    /\ runs[r].submitted # <<>> => runs[r].submitted[1] = 0
    /\ \A k \in 2..Len(runs[r].submitted) :
          \/ runs[r].submitted[k] = runs[r].submitted[k - 1] + 1
          \/ /\ runs[r].submitted[k] = runs[r].submitted[k - 1]
             /\ runs[r].submitted[k] \in runs[r].failed
    /\ EndedBeforeNext(runs[r])

\* C8 witness: a run retried chunk 0 and went on to chunk 1
C8_Witness == \E r \in DOMAIN runs : runs[r].submitted = <<0, 0, 1>>

\* C9: a run that no stop() and no later speak() aborts calls onStart once,
\* before its first chunk is submitted, and onEnd once, when it is over: after
\* its last chunk has ended or after onError.
C9_StartAndEndOnce ==
  \A r \in DOMAIN runs :
    (~runs[r].stopped /\ ~runs[r].superseded) =>
      /\ runs[r].onStartCalls <= 1 /\ runs[r].onEndCalls <= 1
      /\ runs[r].submitted # <<>> => runs[r].onStartCalls = 1
      /\ runs[r].onEndCalls = 1 =>
            /\ runs[r].pc = "done"
            /\ \/ (NumChunks(runs[r]) - 1) \in runs[r].ended
               \/ runs[r].onErrorCalls = 1
      /\ runs[r].pc = "done" =>
            (runs[r].onStartCalls = 1 /\ runs[r].onEndCalls = 1)

\* C9 witness: a run that was not aborted has played its two chunks and ended
C9_Witness ==
  \E r \in DOMAIN runs :
    /\ ~runs[r].stopped /\ ~runs[r].superseded /\ runs[r].pc = "done"
    /\ runs[r].ended = {0, 1} /\ runs[r].onEndCalls = 1

\* C3: no step taken while the coordinator's mic gate (isMicGated) is true
\* hands an utterance to the result callback, the window in which isGatedRef
\* still lags behind the gate included.
C3_NoDeliveryWhileGated ==
  [][isMicGated => deliveryTick' = deliveryTick]_vars

\* C2: in the voice session, while the synthesis engine has an utterance
\* queued or being spoken the mic gate is true, and the gate falls only once
\* speech output has ended.
C2_MicSuppressedWhileSpeaking ==
  [][/\ synthQueue # <<>> => isMicGated
     /\ isMicGated /\ ~isMicGated' => synthQueue' = <<>>]_vars

\* C11: whenever a release timer fires while a speaking -> listening request is
\* pending, sessionState becomes listening, whatever autoResumeListening is.
C11_PendingPerformed ==
  [][ (ReleaseTimerFires /\ pendingStateRef = "listening")
        => sessionState' = "listening" ]_vars

\* C12: a call transitionTo(target) whose target is not in the adjacency table
\* for the current state (the committed one, which stateRef holds) changes
\* nothing: session state, gate, output-active flag, pending request, timer
\* handle and pending release timers are as before.
C12_InvalidRejected ==
  [][ \A target \in VoiceSessionState :
        (lastCall' = <<"transitionTo", stateRef, target>>
           /\ target \notin validTransitions[stateRef])
        => UNCHANGED <<sessionState, isMicGated, isOutputActive, stateRef,
                       pendingStateRef, micGateTimeoutRef, releaseTimers>> ]_vars

\* C12 witness: idle -> speaking has just been requested, and the state is idle
C12_Witness ==
  /\ lastCall = <<"transitionTo", "idle", "speaking">>
  /\ sessionState = "idle" /\ ~isMicGated

\* C13: canStartListening() does not return true while the gate is on, output
\* is active or the session state is speaking, as these stand after the calls
\* made so far; and after an accepted transitionTo(speaking) call it returns
\* false.
C13_NoStartWhileGated ==
  /\ canStartListening(Coord)
       => ~isMicGated /\ ~isOutputActive /\ sessionState # "speaking"
  /\ (/\ lastCall[1] = "transitionTo"
      /\ lastCall[3] = "speaking"
      /\ "speaking" \in validTransitions[lastCall[2]])
       => ~canStartListening(Coord)

\* C14: right after resetSession() the session state is idle, the gate and the
\* output-active flag are off and no request is pending
C14_ResetState ==
  lastCall = <<"resetSession">>
    => /\ sessionState = "idle"
       /\ ~isMicGated /\ ~isOutputActive
       /\ pendingStateRef = NULL

\* C14: a release timer started before the last resetSession() does not change
\* the gate or the session state when it fires after that reset
C14_NoStaleTimerEffect ==
  [][ (ReleaseTimerFires /\ Head(releaseTimers) \in staleTimers)
        => UNCHANGED <<isMicGated, sessionState>> ]_vars

\* something of the Voice page is still to happen without the user acting: a
\* commit, a reply of the stream, a timer, a callback of an utterance, an
\* engine starting or ending as it was told to
VoicePending ==
  \/ sessionState # stateRef
  \/ isListening # isListeningRendered
  \/ isMicGated # isGatedRef
  \/ isOutputActive # isOutputActiveRendered
  \/ chatStream = "open"
  \/ releaseTimers # <<>>
  \/ synthQueue # <<>>
  \/ \E r \in DOMAIN runs :
        runs[r].pc \in {"delay", "pause", "retryWait"} \/ runs[r].utt = "cancelled"
  \/ engine \in {"starting", "stopping", "aborting"}
  \/ silenceTimerPending
  \/ restartTimerPending

\* C15: every speaking interval ends by itself, so while the session is
\* speaking something that needs no user action is still to happen (a commit,
\* a timer, a callback of the utterance), whatever text was handed to speak()
C15_SpeakingEnds ==
  sessionState = "speaking" => VoicePending

\* speak(text) has just been called: a run for text has begun, unless text is blank
SpeakInvoked(text) ==
  Trim(text) # <<>>
    => /\ Len(runs') = Len(runs) + 1
       /\ runs'[Len(runs')].text = text
       /\ runs'[Len(runs')].pc = "delay"

\* C16 as stated: a stream opened for a finalized utterance is never given up
\* without the session moving to speaking
C16_UtteranceAlwaysSpoken ==
  [][ (chatStream = "open" /\ chatStream' = "none") => sessionState' = "speaking" ]_vars

\* C16 amended: when the stream ends while the page shows processing, the
\* session moves to speaking (gated) and speak() is called with the full
\* response on completion and with the fallback text on failure; and the
\* session enters speaking only at the end of a stream processPrompt opened
C16_StreamEndSpeaks ==
  [][ /\ \A response \in Responses :
           (VStreamCompletes(response)
              /\ sessionState = "processing" /\ stateRef = "processing")
           => sessionState' = "speaking" /\ isMicGated' /\ SpeakInvoked(response)
      /\ (VStreamFails /\ sessionState = "processing" /\ stateRef = "processing")
           => sessionState' = "speaking" /\ isMicGated' /\ SpeakInvoked(fallback)
      /\ (sessionState' = "speaking" /\ sessionState # "speaking")
           => chatStream = "open" /\ chatStream' = "none" ]_vars

\* C16 witness: the stream has just ended in processing, the session is speaking
\* and the run for the response has begun
C16_Witness ==
  /\ sessionState = "speaking" /\ stateRef = "processing"
  /\ chatStream = "none"
  /\ runs # <<>> /\ runs[Len(runs)].pc = "delay"

\* C17: the result callback never receives the text it received in the
\* delivery before, whatever capture events, start and stop calls and timer
\* firings occur
C17_NoConsecutiveDuplicate ==
  [][ deliveryTick' # deliveryTick => lastDelivered' # lastDelivered ]_vars

\* C18: every text handed to the result callback is non-empty and has no
\* whitespace at its start or its end
C18_DeliveredTrimmed ==
  [][ deliveryTick' # deliveryTick
        => /\ lastDelivered' # <<>>
           /\ Trim(lastDelivered') = lastDelivered' ]_vars

\* C18 witness: the final text "A " of the engine has been delivered, as "A"
C18_Witness ==
  lastDelivered = <<"A">>

\* C19: when the silence timer fires on a buffer that holds non-empty text
\* (the hook not being gated), the result callback is called once, with the
\* trimmed buffer text, and the buffer is empty afterwards
C19_SilenceDelivers ==
  [][ (SilenceTimerFires /\ Trim(finalTranscriptRef) # <<>> /\ ~isGatedRef)
        => /\ deliveryTick' # deliveryTick
           /\ lastDelivered' = Trim(finalTranscriptRef)
           /\ finalTranscriptRef' = <<>> ]_vars

\* C20 as stated: stopListening() cancels the pending silence timer, and when
\* the engine it stopped with non-empty text in the buffer ends, no result
\* having started a silence timer since, that text is delivered and the buffer
\* is empty afterwards
C20_StopFlushes ==
  [][ /\ StopListening => ~silenceTimerPending'
      /\ (EngineEnds /\ stopRequested /\ ~silenceTimerPending
            /\ Trim(finalTranscriptRef) # <<>>)
           => /\ deliveryTick' # deliveryTick
              /\ lastDelivered' = Trim(finalTranscriptRef)
              /\ finalTranscriptRef' = <<>> ]_vars

\* C20 amended: stopListening() cancels the pending silence timer and keeps the
\* buffer; when the engine it stopped ends while the hook is not gated (and
\* startListening() has not been called meanwhile), buffered
\* text other than the last text delivered is passed to the result callback
\* once, before onEnd, and a buffer with the last text delivered is dropped; the
\* buffer is empty afterwards
C20_StopFlushesUnsent ==
  [][ /\ StopListening
           => /\ ~silenceTimerPending'
              /\ UNCHANGED <<finalTranscriptRef, lastDelivered, deliveryTick>>
      /\ (EngineEnds /\ stopRequested /\ ~shouldRestartRef
            /\ Trim(finalTranscriptRef) # <<>> /\ ~isGatedRef)
           => /\ finalTranscriptRef' = <<>>
              /\ IF Trim(finalTranscriptRef) # lastProcessedRef
                 THEN /\ onend([Rec EXCEPT !.engine = "inactive"]).out
                           = << <<"onResult", Trim(finalTranscriptRef)>>, <<"onEnd">> >>
                      /\ deliveryTick' # deliveryTick
                      /\ lastDelivered' = Trim(finalTranscriptRef)
                 ELSE UNCHANGED <<lastDelivered, deliveryTick>> ]_vars

\* C20 witness: stopListening() has been called with unsent text in the buffer:
\* the silence timer is cancelled and the engine is about to end
C20_Witness ==
  /\ stopRequested /\ engine = "stopping"
  /\ ~silenceTimerPending /\ ~isGatedRef
  /\ Trim(finalTranscriptRef) # <<>>
  /\ Trim(finalTranscriptRef) # lastProcessedRef

\* C21: when there is no capture capability, when a start is in flight
\* (requested, the engine not yet started) or when the hook is gated,
\* startListening() returns false and changes nothing (buffer, restart flags,
\* engine)
C21_StartRefused ==
  \A alreadyStarted \in BOOLEAN :
    (~recognitionRef \/ startRequestedRef \/ isGatedRef)
      => /\ startListeningResult(Rec, alreadyStarted) = FALSE
         /\ startListening(Rec, alreadyStarted) = Rec

\* C22: a restart timer scheduled before stopListening() does nothing to the
\* engine, to isListening or to the restart flag when it fires after that call,
\* whether or not startListening() has been called in between
C22_NoZombieRestart ==
  [][ (RestartTimerFires /\ restartStale)
        => UNCHANGED <<engine, isListening, shouldRestartRef>> ]_vars

\* C23: recognition.start() is not invoked on an engine that is starting,
\* running or winding down: a startListening() call that finds such an engine
\* returns at one of its guards, and a restart timer that finds one does not
\* restart
C23_StartOnlyWhenInactive ==
  [][ /\ \A alreadyStarted \in BOOLEAN :
           (StartListening(alreadyStarted) /\ engine # "inactive")
             => (isGatedRef \/ ~recognitionRef \/ isListeningRef \/ startRequestedRef)
      /\ (RestartTimerFires /\ engine # "inactive")
           => ~(shouldRestartRef /\ ~isGatedRef) ]_vars

\* C24 as stated: with the continuous option on, when a running engine that
\* nobody stopped ends while the hook is not gated, a restart is scheduled
C24_ContinuousRestarts ==
  [][ (EngineEnds /\ engine = "active" /\ isListening /\ continuous /\ ~isGatedRef)
        => restartTimerPending' ]_vars

\* C24 amended: on desktop, when the engine ends while auto-restart is on
\* (continuous start, no stop and no fatal error since), no restart is under way
\* and the hook is not gated, a restart is scheduled and the hook stays
\* listening; and when that timer fires with auto-restart still on, the hook
\* not gated and the engine ended, the engine is started again
C24_DesktopRestarts ==
  [][ /\ (EngineEnds /\ ~isMobile /\ shouldRestartRef /\ ~restartingRef /\ ~isGatedRef)
           => /\ restartTimerPending' /\ restartingRef'
              /\ UNCHANGED <<isListening, shouldRestartRef>>
      /\ (RestartTimerFires /\ shouldRestartRef /\ ~isGatedRef /\ engine = "inactive")
           => engine' = "starting" /\ ~restartingRef' ]_vars

\* C24 witness: the restart timer has fired and started the engine again (no
\* startListening() call is in flight)
C24_Witness ==
  /\ engine = "starting" /\ ~startRequestedRef
  /\ shouldRestartRef /\ ~restartTimerPending /\ isListening

\* the chunks speak() computed for the runs that are past the 50 ms delay
ChunksSpoken ==
  {chunkText(runs[r].text) : r \in {q \in DOMAIN runs : runs[q].pc # "delay"}}

\* C26: every chunk chunkText produces is at most MAX_CHUNK_LENGTH characters
\* long
C26_ChunkLength ==
  \A chunks \in ChunksSpoken :
    \A k \in DOMAIN chunks : Len(chunks[k].text) <= MAX_CHUNK_LENGTH

\* str begins with prefix
IsPrefix(prefix, str) ==
  Len(prefix) <= Len(str) /\ SubSeq(str, 1, Len(prefix)) = prefix

\* text is the chunk texts in order with nothing but blanks before, between
\* and after them
RECURSIVE Reassembles(_, _)
Reassembles(text, chunks) ==
  IF chunks = <<>> THEN TrimStart(text) = <<>>
  ELSE LET c == Head(chunks).text
           t == IF IsPrefix(c, text) THEN text ELSE TrimStart(text)
       IN IsPrefix(c, t) /\ Reassembles(SliceFrom(t, Len(c)), Tail(chunks))

\* the while loop of chunkText has emptied the remainder after at most fuel
\* iterations
RECURSIVE LoopEnds(_, _)
LoopEnds(remaining, fuel) ==
  \/ Len(remaining) = 0
  \/ /\ fuel > 0
     /\ LoopEnds(Trim(SliceFrom(remaining, ChunkEnd(remaining))), fuel - 1)

\* C27: for every text speak() hands to chunkText the loop ends within as many
\* iterations as the text has characters, every chunk is non-empty, the chunk
\* at position k carries index k (from 0), and the text is the chunk texts in
\* index order with only blanks dropped around them
C27_ChunksKeepContent ==
  \A r \in DOMAIN runs :
    runs[r].pc # "delay" =>
      LET text == runs[r].text
          chunks == chunkText(text)
      IN /\ Len(text) > MAX_CHUNK_LENGTH => LoopEnds(text, Len(text))
         /\ \A k \in DOMAIN chunks :
              chunks[k].text # <<>> /\ chunks[k].index = k - 1
         /\ Reassembles(text, chunks)

\* C27 witness: a text cut in two chunks at a sentence end, the blank after the
\* cut dropped
C27_Witness ==
  \E r \in DOMAIN runs :
    /\ runs[r].pc # "delay"
    /\ Len(chunkText(runs[r].text)) = 2
    /\ Len(chunkText(runs[r].text)[1].text) + Len(chunkText(runs[r].text)[2].text)
         < Len(runs[r].text)
    /\ chunkText(runs[r].text)[1].text[Len(chunkText(runs[r].text)[1].text)] = "."

\* C28: every streamChat call still in flight, other than the one the
\* controller ref holds, has its signal aborted, and no call has invoked
\* onDelta, onComplete or onError after its signal was aborted
C28_AbortedCallIsSilent ==
  \A c \in DOMAIN requests :
    /\ (requests[c].pc # "done" /\ c # abortControllerRef) => requests[c].aborted
    /\ requests[c].late = {}

\* C25: an engine error other than no-speech and aborted calls onError exactly
\* once, sets isListening to false and turns auto-restart off; and auto-restart
\* is turned on by nothing but startListening(), and while it is off neither
\* the restart timer starts the engine nor an ending engine schedules a restart
C25_FatalErrorStops ==
  [][ /\ \A error \in RecognitionErrors \ {"no-speech", "aborted"} :
           EngineError(error)
             => /\ onerror([Rec EXCEPT !.engine = "aborting"], error).out
                     = <<<<"onError">>>>
                /\ ~isListening' /\ ~shouldRestartRef'
      /\ (~shouldRestartRef /\ shouldRestartRef')
           => \E alreadyStarted \in BOOLEAN : StartListening(alreadyStarted)
      /\ (~shouldRestartRef /\ RestartTimerFires) => UNCHANGED engine
      /\ (~shouldRestartRef /\ EngineEnds) => UNCHANGED restartTimerPending ]_vars

\* C25 witness: a fatal error has hit a running desktop engine in continuous
\* mode: the hook no longer listens, auto-restart is off, the engine not ended
C25_Witness ==
  /\ engine = "aborting" /\ isListeningRendered /\ ~isListening /\ ~isListeningRef
  /\ ~shouldRestartRef /\ continuous /\ ~isMobile

\* the last k words of the word list ws
LastWords(ws, k) == SubSeq(ws, Len(ws) - k + 1, Len(ws))

\* merged is what C29 allows for segment S arriving on buffer B: S when B is
\* empty or S extends B, else the words of B followed by the words of S less
\* its first k, for a k such that those k words are the last k words of B
MergedByWords(B, S, merged) ==
  LET Bt == Trim(B)
      St == Trim(S)
      Bw == Split(Bt)
      Sw == Split(St)
  IN IF Bt = <<>> THEN merged = St
     ELSE \/ StartsWith(ToLowerCase(St), ToLowerCase(Bt)) /\ merged = St
          \/ \E k \in 0..Len(Sw) :
               /\ k <= Len(Bw)
               /\ SubSeq(Sw, 1, k) = LastWords(Bw, k)
               /\ Split(merged) = Bw \o SubSeq(Sw, k + 1, Len(Sw))

\* C29: on desktop a final segment S merged into buffer B drops no word of S
\* unless it repeats whole words at the end of B (S replaces B when it extends
\* B, B is unchanged when S already ends it)
C29_MergeKeepsWords ==
  [][ \A S \in Phrases :
        EnginePhrase(S) => MergedByWords(finalTranscriptRef, S, finalTranscriptRef') ]_vars

\* C29, the example: the lights please arriving on turn on the gives
\* turn on the lights please
C29_Example ==
  mergeDesktop(<<"t","u","r","n"," ","o","n"," ","t","h","e">>,
               <<"t","h","e"," ","l","i","g","h","t","s"," ","p","l","e","a","s","e">>)
    = <<"t","u","r","n"," ","o","n"," ","t","h","e"," ",
        "l","i","g","h","t","s"," ","p","l","e","a","s","e">>

\* C30: on mobile, while the hook is not gated, a final segment equal to the
\* last delivered utterance leaves the buffer and the silence timer as they are
\* and calls nothing, and any other final segment makes the buffer the trimmed
\* segment
C30_MobileReplace ==
  [][ \A finalTranscript \in Finals \ {<<>>} :
        (EngineResult(finalTranscript) /\ isMobile /\ ~isGatedRef)
          => IF Trim(finalTranscript) = lastDelivered
             THEN /\ UNCHANGED <<finalTranscriptRef, silenceTimerRef, silenceTimerPending>>
                  /\ onresult(Rec, finalTranscript).out = <<>>
             ELSE finalTranscriptRef' = Trim(finalTranscript) ]_vars

\* C33: every change of the sessionState the hook's users observe (the value of
\* the last commit, which stateRef holds), the pending transition performed by
\* a release timer included, follows an edge of validTransitions; a reset to
\* idle is such an edge from every other state
C33_ChangesAlongEdges ==
  [][ stateRef' # stateRef
        => \/ stateRef' \in validTransitions[stateRef]
           \/ stateRef' = "idle" ]_vars

\* C33 witness: a release timer has performed the pending transition to
\* listening, which the next commit shows after speaking
C33_Witness ==
  /\ lastCall = <<"timer">> /\ autoResumeListening
  /\ sessionState = "listening" /\ stateRef = "speaking" /\ pendingStateRef = NULL

\* C34, its case: no transition is ever locked (transitionLockRef is assigned
\* false only), and a pending request is only ever listening
C34_LockNeverHeld ==
  ~transitionLockRef /\ pendingStateRef \in {NULL, "listening"}

\* C39: in every reachable state of the Session Coordinator, isOutputActive
\* implies isMicGated
C39_OutputImpliesGated == isOutputActive => isMicGated

\* the stored history less its last entry when that entry is an ai message
WithoutLastAi(history) ==
  IF history # <<>> /\ history[Len(history)].role = "ai"
  THEN SubSeq(history, 1, Len(history) - 1) ELSE history

\* C31: a regenerate that goes ahead submits the stored history, its last
\* entry removed exactly when that entry is an assistant turn and every other
\* entry kept in place (ai sent as assistant), with temperature 0.9 (in
\* tenths: 9)
C31_RetrySubmits ==
  [][ (HandleRetry /\ ~retryRefused)
        => /\ Len(submitted'.messages) = Len(WithoutLastAi(messagesRef))
           /\ \A k \in DOMAIN submitted'.messages :
                /\ submitted'.messages[k].content = messagesRef[k].content
                /\ submitted'.messages[k].role
                     = (IF messagesRef[k].role = "user" THEN "user" ELSE "assistant")
           /\ submitted'.temperature = 9 ]_vars

\* C31 witness: regenerate on the history [user:A, ai:B] has submitted [user:A]
C31_Witness ==
  /\ messagesRef = <<[role |-> "user", content |-> <<"A">>],
                     [role |-> "ai", content |-> <<"B">>]>>
  /\ submitted # <<>>
  /\ submitted.messages = <<[role |-> "user", content |-> <<"A">>]>>

(* C32: selectVoice(language, male), for a language whose capability entry has
   no male support, returns the voice and leaves the cache that
   selectVoice(language, female) would on the same voice list and cache, and
   returns a voice whenever the voice list is not empty. *)
C32_MaleFallsBackToFemale ==
  [][ \A targetLanguage \in TargetLanguages :
        ( /\ ~languageSupportsGender(targetLanguage, "male")
          /\ SelectVoice(targetLanguage, "male") )
        => /\ lastSelection'.voice = selectVoice(VoiceSelector, targetLanguage, "female").voice
           /\ lockedVoicesRef' =
                selectVoice(VoiceSelector, targetLanguage, "female").lockedVoicesRef
           /\ (voices # <<>> => lastSelection'.voice # NoVoice) ]_vars

\* a male request for fr-FR answered with the female-pattern voice although a
\* male-pattern fr-FR voice comes first in the list
C32_Witness ==
  /\ lastSelection.language = <<"f", "r", "-", "F", "R">>
  /\ lastSelection.gender = "male"
  /\ Len(voices) = 2
  /\ voices[1].name = <<"D", "a", "v", "i", "d">>
  /\ voices[1].lang = <<"f", "r", "-", "F", "R">>
  /\ lastSelection.voice = voices[2]
  /\ lastSelection.voice.name = <<"Z", "i", "r", "a">>

\* the retries of a run: the submissions that repeat the index before them
Retries(run) ==
  Cardinality({k \in 2..Len(run.submitted) : run.submitted[k] = run.submitted[k - 1]})

(* C35: a run of speak() retries failed chunks at most MAX_RETRIES times in
   total, calls onError at most once, and is over once it has called it. *)
C35_RetriesBounded ==
  \A r \in DOMAIN runs :
    /\ Retries(runs[r]) <= MAX_RETRIES
    /\ runs[r].onErrorCalls <= 1
    /\ runs[r].onErrorCalls = 1 => runs[r].pc = "done"

(* C36: the Recognition Engine assembles the transcript of every result by the
   mobile strategy exactly when the Mobile Detector reports a mobile device,
   whatever the user agent, the touch support and the viewport width. *)
C36_StrategyFollowsDetector ==
  [][ \A finalTranscript \in Finals :
        EngineResult(finalTranscript)
        => finalTranscriptRef' =
             onresult([Rec EXCEPT !.isMobile = isMobileDevice(Navigator)],
                      finalTranscript).finalTranscriptRef ]_vars

(* C37: from the full stop (handleStop) to the user's next click the session is
   idle and the microphone does not capture: the recognition engine is neither
   started nor active. *)
C37_StaysStopped ==
  lastCall = <<"handleStop">>
    => /\ sessionState = "idle"
       /\ engine \notin {"starting", "active"}

(* C38: text that was in the buffer when the gate stopped the capture is never
   delivered by onResult: no onResult call is made while the buffer still
   holds it. *)
C38_GatedTextDiscarded ==
  [][ deliveryTick' # deliveryTick => ~heldAtGate ]_vars

\* increments[1] + increments[2] + ...
RECURSIVE Concat(_)
Concat(increments) ==
  IF increments = <<>> THEN <<>> ELSE Head(increments) \o Concat(Tail(increments))

(* C40: when a streamChat call completes, the text handed to onComplete is the
   concatenation, in order, of the increments handed to onDelta by that call,
   however the body was split into reads. *)
C40_CompleteIsConcat ==
  streamCall.pc = "done" => streamCall.completed = <<Concat(streamCall.deltas)>>

\* a call completed with two increments after a read that ended inside a line,
\* the second increment found by the final flush
C40_Witness ==
  /\ streamCall.pc = "done"
  /\ streamCall.midLine
  /\ streamCall.deltas = <<<<"H", "i">>, <<"!">>>>
  /\ streamCall.completed = <<<<"H", "i", "!">>>>

====
